---- MODULE Spec2Model ----
(***************************************************************************)
(* The device session and asynchronous read pipeline of the libusb HID     *)
(* backend (src/src/hidapi/libusb/hid.c): the background read thread, the   *)
(* transfer completion callback, the inbound report queue, hid_read_timeout *)
(* and hid_close, as interleaved processes over the session's fields.       *)
(***************************************************************************)
EXTENDS Integers, Sequences, FiniteSets, TLC

\* ------------------------------------------------------------------ bounds
\* Completed transfers the transport delivers in the concurrent specifications.
MaxReports == 2
\* Completed transfers the transport delivers in the backlog specification
\* (enough to fill the queue past its cap and evict twice).
MaxBacklog == 34
\* Completed transfers the transport delivers in the shutdown specification.
MaxShutdownReports == 1
\* Report lengths are 0..MaxRptLen, caller buffer lengths 0..MaxBufLen.
MaxRptLen == 1
MaxBufLen == 1
\* Devices on the bus.
MaxDevs == 2
\* Interface numbers are 0..MaxIntfNum.
MaxIntfNum == 2
\* Calls of hid_enumerate in one run.
MaxEnums == 2
\* Bytes in a buffer given to hid_write or a report request.
\* Truncating reads: reports of 2..MaxReadRptLen bytes, caller buffers of
\* 0..MaxReadBufLen bytes, at most MaxReadReports reports.
MaxReadRptLen == 3
MaxReadBufLen == 3
MaxReadReports == 2
MaxIoLen == 2
\* Completed transfers the transport delivers in the write specification.
MaxIoReports == 1

\* ------------------------------------------------------- program constants
\* hid.c:1148  if (num_queued > 30)
QueueThreshold == 30

\* ------------------------------------------------------------- identities
BG == "bg"          \* the read thread (and the callbacks it dispatches)
APP == "app"        \* the thread that calls hid_close
FREE == "free"      \* the mutex has no owner
Readers == {"r1", "r2"}
NoRpt == [id |-> 0, len |-> 0, data |-> <<>>]

Statuses == {"COMPLETED", "CANCELLED", "NO_DEVICE", "TIMED_OUT", "ERROR"}
\* read_callback (hid.c:1123): the bytes the device delivered in the transfer
\* of report id, told apart by report and position.
transfer_buffer(id, l) == [i \in 1..l |-> (16 * id + i) % 256]

RptLens == 0..MaxRptLen
BufLens == 0..MaxBufLen
\* milliseconds argument of hid_read_timeout: -1 infinite, 0 non-blocking, 5 timed
Modes == {-1, 0, 5}

\* results of hidapi_thread_cond_timedwait
WAIT_OK == "ok"
WAIT_TIMED_OUT == "timed_out"
WAIT_ERROR == "error"

\* No transfer has been made on the caller's thread yet.
NoIo == [op |-> "none", via |-> "none", request |-> 0, wValue |-> 0,
         data |-> <<>>, sent |-> <<>>, length |-> 0, actual |-> 0, ret |-> 0]

\* ------------------------------------------------------------ the USB bus
\* hid.c:1325-1327 (calculate_device_quirks)
VENDOR_SONY == 1356
PRODUCT_PS3_CONTROLLER == 616
PRODUCT_NAVIGATION_CONTROLLER == 1071
\* hid.c:513 and 1264: HORI, and the VID/PID it reuses for many products
VENDOR_HORI == 3853
PRODUCT_HORI_SHARED == 220
\* libusb interface classes as hid.c uses them (hid.c:912, 857)
LIBUSB_CLASS_HID == 3
LIBUSB_CLASS_VENDOR_SPEC == 255
\* hid.c:825-827 (is_xbox360)
xb360_iface_subclass == 93
xb360_iface_protocol == 1
xb360w_iface_protocol == 129
\* hid.c:873-874 (is_xboxone)
xb1_iface_subclass == 71
xb1_iface_protocol == 208
\* hid.c:1278 (init_xboxone)
vendor_microsoft == 1118
\* hid.c:828-855 and 875-890: the supported_vendors tables
Xbox360Vendors ==
    {121, 1103, 1118, 1133, 1390, 1699, 1848, 2047, 3695, 3853, 4152, 4553,
     4779, 5168, 5227, 5426, 5604, 5678, 5769, 6473, 7085, 8406, 9414, 11298,
     11720, 39046}
XboxOneVendors ==
    {1008, 1103, 1118, 1848, 2821, 3695, 3853, 4341, 5426, 8406, 9414, 11720,
     11812, 13623}
\* hid.c:929-931 (libusb_blacklist): the known_bad table, <<vid, pid>>
KnownBad == {<<5426, 551>>}
\* LIBUSB_ENDPOINT_DIR_MASK: bit 7 of bEndpointAddress is the IN direction
LIBUSB_ENDPOINT_IN == 128

\* Mutant of is_xbox360: only the wired protocol is accepted.
is_xbox360_wired_only(vendor_id, intf_desc) ==
    /\ intf_desc.cls = LIBUSB_CLASS_VENDOR_SPEC
    /\ intf_desc.sub = xb360_iface_subclass
    /\ intf_desc.proto = xb360_iface_protocol
    /\ vendor_id \in Xbox360Vendors

\* hid.c:823-869
is_xbox360(vendor_id, intf_desc) ==
    /\ intf_desc.cls = LIBUSB_CLASS_VENDOR_SPEC
    /\ intf_desc.sub = xb360_iface_subclass
    /\ intf_desc.proto \in {xb360_iface_protocol, xb360w_iface_protocol}
    /\ vendor_id \in Xbox360Vendors

\* hid.c:871-904
is_xboxone(vendor_id, intf_desc) ==
    /\ intf_desc.num = 0
    /\ intf_desc.cls = LIBUSB_CLASS_VENDOR_SPEC
    /\ intf_desc.sub = xb1_iface_subclass
    /\ intf_desc.proto = xb1_iface_protocol
    /\ vendor_id \in XboxOneVendors

\* hid.c:906-924
should_enumerate_interface(vendor_id, intf_desc) ==
    \/ intf_desc.cls = LIBUSB_CLASS_HID
    \/ is_xbox360(vendor_id, intf_desc)
    \/ is_xboxone(vendor_id, intf_desc)

\* hid.c:926-940: a pid of 0 in the table matches every product of the vendor.
libusb_blacklist(vendor_id, product_id) ==
    \E bad \in KnownBad :
        vendor_id = bad[1] /\ (product_id = bad[2] \/ bad[2] = 0)

\* Strings are sequences of characters. "%u" of printf: the decimal digits of
\* n, most significant first, without padding.
Digit(n) == SubSeq(<<"0", "1", "2", "3", "4", "5", "6", "7", "8", "9">>, n + 1, n + 1)
RECURSIVE fmt_u(_)
fmt_u(n) == IF n < 10 THEN Digit(n) ELSE fmt_u(n \div 10) \o Digit(n % 10)

\* snprintf(&str[n], size, ...) of text on str: at most size - 1 characters
\* and a terminator are stored at n, and n advances by the whole length of
\* text, so that after a truncated write the string ends at that terminator
\* and later writes land behind it (cut).
snprintf_at(s, size, text) ==
    [str |-> IF s.cut THEN s.str
             ELSE s.str \o SubSeq(text, 1, IF Len(text) < size THEN Len(text) ELSE size - 1),
     n |-> s.n + Len(text),
     cut |-> s.cut \/ ~(Len(text) < size)]

\* hid.c:570-572: ".%u" for the port numbers from the i-th on; sizeof(".000") is 5.
RECURSIVE get_path_ports(_, _, _)
get_path_ports(s, port_numbers, i) ==
    IF i > Len(port_numbers) THEN s
    ELSE get_path_ports(snprintf_at(s, 5, <<".">> \o fmt_u(port_numbers[i])),
                        port_numbers, i + 1)

\* Mutant of get_path_string: the interface number is left out.
get_path_string_without_interface(bus_number, port_numbers, config_number, interface_number) ==
    IF Len(port_numbers) > 0
      THEN LET head == snprintf_at([str |-> <<>>, n |-> 0, cut |-> FALSE], 8,
                                   fmt_u(bus_number) \o <<"-">> \o fmt_u(port_numbers[1]))
               chain == get_path_ports(head, port_numbers, 2)
           IN  snprintf_at(chain, 9, <<":">> \o fmt_u(config_number % 256)).str
      ELSE <<>>

\* get_path (hid.c:560-584) for a device on bus bus_number whose
\* libusb_get_port_numbers gives port_numbers (none when it fails or the device
\* has no port): "%u-%u" in sizeof("000-000") = 8 bytes, ".%u" for each further
\* port, ":%u.%u" of the two numbers cast to uint8_t in sizeof(":000.000") = 9
\* bytes; the empty string without port numbers.
get_path_string(bus_number, port_numbers, config_number, interface_number) ==
    IF Len(port_numbers) > 0
      THEN LET head == snprintf_at([str |-> <<>>, n |-> 0, cut |-> FALSE], 8,
                                   fmt_u(bus_number) \o <<"-">> \o fmt_u(port_numbers[1]))
               chain == get_path_ports(head, port_numbers, 2)
           IN  snprintf_at(chain, 9,
                           <<":">> \o fmt_u(config_number % 256) \o <<".">>
                               \o fmt_u(interface_number % 256)).str
      ELSE <<>>

\* get_path of an interface of a device of the bus: the devices are on bus 1,
\* each at the port of its place in the list when it reports port numbers, and
\* every device here has configuration value 1.
get_path(usb_dev, interface_number) ==
    get_path_string(1, IF usb_dev.ports THEN <<usb_dev.loc>> ELSE <<>>, 1, interface_number)

\* Interface descriptors (one per alternate setting) and endpoints.
EpIn == [addr |-> 129, interrupt |-> TRUE]
EpOut == [addr |-> 1, interrupt |-> TRUE]
EpBulkOut == [addr |-> 2, interrupt |-> FALSE]
IntfDesc(num, cls, sub, proto, eps) ==
    [num |-> num, cls |-> cls, sub |-> sub, proto |-> proto, endpoint |-> eps]
HidAlt(num, eps) == IntfDesc(num, LIBUSB_CLASS_HID, 0, 0, eps)
OtherAlt(num) == IntfDesc(num, 8, 6, 80, <<>>)

\* A device on the bus: descriptor readable or not, configuration descriptor
\* available or not, and its interfaces, each a sequence of alternate settings.
\* iManufacturer and iProduct are the indexes of its string descriptors, 0
\* when it has none.
UsbDev(loc, vid, pid, readable, conf, ports, intfs) ==
    [loc |-> loc, vid |-> vid, pid |-> pid, readable |-> readable,
     conf |-> conf, ports |-> ports, interface |-> intfs,
     iManufacturer |-> 1, iProduct |-> 2]

PlainHid(loc) ==
    UsbDev(loc, 1149, 1, TRUE, TRUE, TRUE, << <<HidAlt(0, <<EpIn, EpBulkOut, EpOut>>)>> >>)
Composite(loc) ==
    UsbDev(loc, 1149, 2, TRUE, TRUE, TRUE,
           << <<OtherAlt(0), HidAlt(0, <<EpIn>>)>>,
              <<HidAlt(1, <<EpIn>>), HidAlt(1, <<EpIn, EpOut>>)>> >>)
Unreadable(loc) == UsbDev(loc, 0, 0, FALSE, TRUE, TRUE, <<>>)
NoConfig(loc) == UsbDev(loc, 1149, 3, TRUE, FALSE, TRUE, <<>>)
SonyPS3(loc) ==
    UsbDev(loc, VENDOR_SONY, PRODUCT_PS3_CONTROLLER, TRUE, TRUE, TRUE,
           << <<HidAlt(0, <<EpOut, EpIn>>)>> >>)
SonyNavigation(loc) ==
    UsbDev(loc, VENDOR_SONY, PRODUCT_NAVIGATION_CONTROLLER, TRUE, TRUE, TRUE,
           << <<HidAlt(0, <<EpOut, EpIn>>)>> >>)
RazerHuntsman(loc) ==
    UsbDev(loc, 5426, 551, TRUE, TRUE, TRUE, << <<HidAlt(0, <<EpIn>>)>> >>)
Xbox360Pad(loc) ==
    UsbDev(loc, 1118, 654, TRUE, TRUE, TRUE,
           << <<IntfDesc(0, LIBUSB_CLASS_VENDOR_SPEC, xb360_iface_subclass,
                         xb360_iface_protocol, <<EpIn, EpOut>>)>> >>)
NoPorts(loc) ==
    UsbDev(loc, 1149, 4, TRUE, TRUE, FALSE, << <<HidAlt(0, <<EpIn>>)>> >>)

DevicesAt(loc) ==
    {PlainHid(loc), Composite(loc), Unreadable(loc), NoConfig(loc), SonyPS3(loc),
     SonyNavigation(loc), RazerHuntsman(loc), Xbox360Pad(loc), NoPorts(loc)}

\* The device lists libusb_get_device_list may return: up to MaxDevs devices.
DeviceLists ==
    UNION {{f \in [1..n -> UNION {DevicesAt(l) : l \in 1..n}] :
              \A i \in 1..n : f[i].loc = i} : n \in 0..MaxDevs}

VARIABLES
    \* struct hid_device_ (hid.c:95-141)
    shutdown_thread,          \* int flag
    transfer_loop_finished,   \* int flag
    transfer,                 \* dev->transfer: "null", "alloc", "freed"
    input_reports,            \* the queue, head first
    \* history: the ids of the report nodes freed, in the order of the frees
    freed,
    \* the transport's view of the transfer
    xfer,                     \* "idle", "inflight", "cancelling"
    nsent,                    \* completed transfers delivered so far
    \* thread_state: mutex owner; waiters are the readers at "r_wait"
    mutex,
    \* read_thread / read_callback
    tpc, cbret, rpt,
    \* hidapi_initialize_device, the caller waiting at the barrier
    opc,
    \* hid_read_timeout, one activation per reader (got, waited, expect: history;
    \* expect is the id of the first report enqueued after the reader blocked)
    rpc, ms, blen, ret, res, got, rdata, waited, expect,
    \* hid_close
    cpc, iface, handle, dev_alive,
    \* history: the id of the last report a read returned
    lastGot,
    \* the bus: the device list, and whether a kernel driver is bound to the
    \* interfaces; detached: the <<device, interface>> pairs whose driver this
    \* process has detached and not re-attached
    devs, kactive, detached,
    \* hid_open_path: its argument, position, loop counters d, j, k and locals;
    \* tried (history): the candidates opened so far and how each ended
    path, hpc, open_d, open_j, open_k, good_open, oret, tried,
    \* struct hid_device_: endpoints, quirks, blocking, is_driver_detached
    input_endpoint, output_endpoint, skip_output_report_id,
    no_skip_output_report_id, no_output_reports_on_intr_ep, blocking,
    is_driver_detached,
    \* history: the last synchronous transfer made on the caller's thread by
    \* hid_write or a report request, and what the call returned
    io,
    \* hid_enumerate: its arguments, position, loop counters i, j, k, the result
    \* of libusb_open, the handle and the list it builds
    epc, enum_vendor_id, enum_product_id, enum_i, enum_j, enum_k, enum_res,
    enum_handle, root,
    \* history: the handles hid_enumerate has opened and closed, and the
    \* <<device, interface>> pairs whose record could not be allocated
    nopened, nclosed, nomem,
    \* history: the libusb_set_interface_alt_setting calls made on the session's
    \* handle, <<interface number, alternate setting>>, in order
    altcalls,
    \* history: the control transfers init_xbox360 has made on the session's
    \* handle, <<bmRequestType, bRequest, wValue>>, in order
    unlocks,
    \* history: how the first libusb_submit_transfer of read_thread ended,
    \* "none" before it, then "ok" or "failed"
    first_submit,
    \* the string cache (hid.c:458-460): its entries, usb_string_cache_insert_pos
    \* being their number, and the number of entries allocated
    usb_string_cache, usb_string_cache_size,
    \* history: the get_usb_string calls made for the manufacturer and product
    \* strings of each device, the lookups of those strings for each device,
    \* whether the cache ever failed to grow, and the hid_enumerate calls made
    fetches, lookups, cache_nomem, nenum,
    \* history: the last call of a function of the library that takes and
    \* returns values only, its arguments and its result
    call

vars == <<shutdown_thread, transfer_loop_finished, transfer, input_reports, freed,
          xfer, nsent, mutex, tpc, cbret, rpt, opc,
          rpc, ms, blen, ret, res, got, rdata, waited, expect,
          cpc, iface, handle, dev_alive, lastGot,
          devs, kactive, detached,
          path, hpc, open_d, open_j, open_k, good_open, oret, tried,
          input_endpoint, output_endpoint, skip_output_report_id,
          no_skip_output_report_id, no_output_reports_on_intr_ep, blocking,
          is_driver_detached, io,
          epc, enum_vendor_id, enum_product_id, enum_i, enum_j, enum_k, enum_res,
          enum_handle, root, nopened, nclosed, nomem, altcalls, unlocks,
          first_submit,
          usb_string_cache, usb_string_cache_size, fetches, lookups,
          cache_nomem, nenum, call>>

devVars == <<shutdown_thread, transfer_loop_finished, transfer, input_reports, freed>>
readerVars == <<rpc, ms, blen, ret, res, got, rdata, waited, expect, lastGot>>
closeVars == <<cpc, iface, handle, dev_alive>>
busVars == <<devs, kactive, detached>>
openVars == <<path, hpc, open_d, open_j, open_k, good_open, oret, tried>>
sessionVars == <<input_endpoint, output_endpoint, skip_output_report_id,
                 no_skip_output_report_id, no_output_reports_on_intr_ep, blocking,
                 is_driver_detached>>
\* What the read pipeline, the readers and hid_close leave alone.
cacheVars == <<usb_string_cache, usb_string_cache_size, fetches, lookups,
               cache_nomem, nenum>>
enumVars == <<epc, enum_vendor_id, enum_product_id, enum_i, enum_j, enum_k,
              enum_res, enum_handle, root, nopened, nclosed, nomem, cacheVars>>
sideVars == <<altcalls, unlocks, first_submit, call>>
extVars == <<busVars, openVars, sessionVars, io, enumVars, sideVars>>

\* --------------------------------------------------------------- helpers
\* Mutant of return_data_len: a call that copies no byte reports an error.
return_data_len_empty_is_error(q, length) ==
    IF length = 0 \/ Head(q).len = 0
      THEN -1
      ELSE IF length < Head(q).len THEN length ELSE Head(q).len

\* return_data (hid.c:1647-1659): the byte count it returns ...
return_data_len(q, length) == IF length < Head(q).len THEN length ELSE Head(q).len

\* Mutant of return_data_copy: the whole report is copied, whatever the buffer holds.
return_data_copy_whole(q, length) == Head(q).data

\* return_data (hid.c:1652-1654): memcpy(data, rpt->data, len), the bytes the
\* caller's buffer holds afterwards (nothing is copied when len is 0).
return_data_copy(q, length) == SubSeq(Head(q).data, 1, return_data_len(q, length))

\* Mutant of return_data_rest: the head is copied out but never unlinked.
return_data_rest_kept(q) == q

\* ... and the queue it leaves: the head is unlinked and freed.
return_data_rest(q) == Tail(q)

\* return_data (hid.c:1655-1657): free(rpt->data) and free(rpt) of the node
\* just unlinked, added to the frees made so far.
return_data_free(q, done) == Append(done, Head(q).id)

\* read_callback (hid.c:1137-1142): the walk to the tail counts the links followed.
num_queued(q) == Len(q) - 1

\* read_callback (hid.c:1148): the test that pops the oldest report.
must_pop(q) == num_queued(q) > QueueThreshold

\* No call made yet.
NoCall == [op |-> "none", arg |-> <<>>, out |-> <<>>]

\* hid_enumerate has not been called (hid.c:946-951: handle, i, root).
EnumIdle ==
    /\ epc = "e_idle"
    /\ enum_vendor_id = 0 /\ enum_product_id = 0
    /\ enum_i = 0 /\ enum_j = 0 /\ enum_k = 0
    /\ enum_res = 0
    /\ enum_handle = "null"
    /\ root = <<>>
    /\ nopened = 0 /\ nclosed = 0 /\ nomem = {}
    /\ usb_string_cache = <<>>
    /\ usb_string_cache_size = 0
    /\ fetches = [x \in (1..MaxDevs) \X {"vendor", "product"} |-> 0]
    /\ lookups = [l \in 1..MaxDevs |-> 0]
    /\ cache_nomem = FALSE
    /\ nenum = 0

\* The read pipeline, the readers and the closer of a session from
\* new_hid_device, with the read thread at t, the opener at o and the
\* interface and device handle in states i and h.
PipelineInitAt(t, o, i, h) ==
    /\ shutdown_thread = 0
    /\ transfer_loop_finished = 0
    /\ transfer = "null"
    /\ input_reports = <<>>
    /\ freed = <<>>
    /\ xfer = "idle"
    /\ nsent = 0
    /\ mutex = FREE
    /\ tpc = t
    /\ cbret = "none"
    /\ rpt = NoRpt
    /\ opc = o
    /\ rpc = [r \in Readers |-> "r_idle"]
    /\ ms = [r \in Readers |-> 0]
    /\ blen = [r \in Readers |-> 0]
    /\ ret = [r \in Readers |-> -1]
    /\ res = [r \in Readers |-> WAIT_OK]
    /\ got = [r \in Readers |-> 0]
    /\ rdata = [r \in Readers |-> <<>>]
    /\ waited = [r \in Readers |-> FALSE]
    /\ expect = [r \in Readers |-> 0]
    /\ cpc = "c_idle"
    /\ iface = i
    /\ handle = h
    /\ dev_alive = TRUE
    /\ lastGot = 0
    /\ EnumIdle
    /\ altcalls = <<>>
    /\ unlocks = <<>>
    /\ first_submit = "none"
    /\ call = NoCall

\* At hidapi_thread_create (hid.c:1436): the session as the read thread first sees it.
PipelineInit == PipelineInitAt("t_alloc", "o_barrier", "claimed", "open")

\* hid.c:1323-1334 (calculate_device_quirks): the value it leaves in both
\* skip_output_report_id and no_output_reports_on_intr_ep of a calloc'ed session.
calculate_device_quirks(idVendor, idProduct) ==
    IF idVendor = VENDOR_SONY
         /\ idProduct \in {PRODUCT_PS3_CONTROLLER, PRODUCT_NAVIGATION_CONTROLLER}
      THEN 1 ELSE 0

\* hid.c:1402-1430: the address of the first interrupt endpoint of the wanted
\* direction, 0 when the interface has none.
find_endpoint(intf_desc, want_in) ==
    LET eps == intf_desc.endpoint
        hits == {i \in 1..Len(eps) :
                    /\ eps[i].interrupt
                    /\ ((eps[i].addr \div LIBUSB_ENDPOINT_IN) % 2 = 1) = want_in}
    IN  IF hits = {} THEN 0
        ELSE eps[CHOOSE i \in hits : \A h \in hits : i <= h].addr

\* hid.c:1374-1434 on a session from new_hid_device (hid.c:154-162): the fields
\* hidapi_initialize_device has set when it creates the read thread.
SessionOf(usb_dev, intf_desc) ==
    [input_endpoint |-> find_endpoint(intf_desc, TRUE),
     output_endpoint |-> find_endpoint(intf_desc, FALSE),
     skip_output_report_id |-> calculate_device_quirks(usb_dev.vid, usb_dev.pid),
     no_skip_output_report_id |-> IF is_xbox360(usb_dev.vid, intf_desc) THEN 1 ELSE 0,
     no_output_reports_on_intr_ep |-> calculate_device_quirks(usb_dev.vid, usb_dev.pid),
     blocking |-> 1]

\* The session variables hold the fields of session record ses.
SessionIs(ses) ==
    /\ input_endpoint = ses.input_endpoint
    /\ output_endpoint = ses.output_endpoint
    /\ skip_output_report_id = ses.skip_output_report_id
    /\ no_skip_output_report_id = ses.no_skip_output_report_id
    /\ no_output_reports_on_intr_ep = ses.no_output_reports_on_intr_ep
    /\ blocking = ses.blocking

\* hid_open_path has opened altsetting k of interface j of the only device, no kernel
\* driver being bound, and hidapi_initialize_device has just created the thread.
OpenedInit(usb_dev, j, k) ==
    /\ devs = <<usb_dev>>
    /\ kactive = FALSE
    /\ detached = {}
    /\ path = get_path(usb_dev, usb_dev.interface[j][k].num)
    /\ hpc = "p_barrier"
    /\ open_d = 1 /\ open_j = j /\ open_k = k
    /\ good_open = 0
    /\ oret = "none"
    /\ tried = <<>>
    /\ is_driver_detached = 0
    /\ SessionIs(SessionOf(usb_dev, usb_dev.interface[j][k]))
    /\ io = NoIo

\* new_hid_device / hidapi_initialize_device up to hidapi_thread_create:
\* the session as the read thread first sees it.
Init == PipelineInit /\ OpenedInit(PlainHid(1), 1, 1)

\* ------------------------------------------------------------ read_thread
\* Mutant of read_thread_alloc: the thread goes to the barrier before it has set
\* up and submitted the transfer.
read_thread_alloc_after_barrier ==
    /\ tpc = "t_alloc"
    /\ transfer' = transfer
    /\ tpc' = "t_barrier"
    /\ UNCHANGED <<shutdown_thread, transfer_loop_finished, input_reports, freed,
                   xfer, nsent, mutex, cbret, rpt, opc>>
    /\ UNCHANGED readerVars /\ UNCHANGED closeVars
    /\ UNCHANGED extVars

\* hid.c:1189-1199: allocate the buffer and the transfer object.
read_thread_alloc ==
    /\ tpc = "t_alloc"
    /\ transfer' = "alloc"
    /\ tpc' = "t_submit"
    /\ UNCHANGED <<shutdown_thread, transfer_loop_finished, input_reports, freed,
                   xfer, nsent, mutex, cbret, rpt, opc>>
    /\ UNCHANGED readerVars /\ UNCHANGED closeVars
    /\ UNCHANGED extVars

\* Mutant of read_thread_submit: a failed first submission ends the transfer
\* loop but does not set the shutdown flag.
read_thread_submit_failure_unflagged(ok) ==
    /\ tpc = "t_submit"
    /\ IF ok
         THEN /\ xfer' = "inflight"
              /\ UNCHANGED transfer_loop_finished
         ELSE /\ transfer_loop_finished' = 1
              /\ UNCHANGED xfer
    /\ first_submit' = IF ok THEN "ok" ELSE "failed"
    /\ tpc' = "t_barrier"
    /\ UNCHANGED <<shutdown_thread, transfer, input_reports, freed, nsent, mutex, cbret, rpt, opc>>
    /\ UNCHANGED readerVars /\ UNCHANGED closeVars
    /\ UNCHANGED <<busVars, openVars, sessionVars, io, enumVars, altcalls, unlocks, call>>

\* hid.c:1203-1208: the first submission; on failure the thread marks itself stopped.
read_thread_submit(ok) ==
    /\ tpc = "t_submit"
    /\ IF ok
         THEN /\ xfer' = "inflight"
              /\ UNCHANGED <<shutdown_thread, transfer_loop_finished>>
         ELSE /\ shutdown_thread' = 1
              /\ transfer_loop_finished' = 1
              /\ UNCHANGED xfer
    /\ first_submit' = IF ok THEN "ok" ELSE "failed"
    /\ tpc' = "t_barrier"
    /\ UNCHANGED <<transfer, input_reports, freed, nsent, mutex, cbret, rpt, opc>>
    /\ UNCHANGED readerVars /\ UNCHANGED closeVars
    /\ UNCHANGED <<busVars, openVars, sessionVars, io, enumVars, altcalls, unlocks, call>>

\* hid.c:1211 with hid.c:1439: the two-party barrier releases both threads.
barrier_wait ==
    /\ tpc = "t_barrier"
    /\ opc = "o_barrier"
    /\ tpc' = "t_loop"
    /\ opc' = "o_done"
    /\ UNCHANGED devVars
    /\ UNCHANGED <<xfer, nsent, mutex, cbret, rpt>>
    /\ UNCHANGED readerVars /\ UNCHANGED closeVars
    /\ UNCHANGED extVars

\* hid.c:1214: while (!dev->shutdown_thread)
read_thread_loop ==
    /\ tpc = "t_loop"
    /\ tpc' = IF shutdown_thread = 0 THEN "t_events" ELSE "t_cancel"
    /\ UNCHANGED devVars
    /\ UNCHANGED <<xfer, nsent, mutex, cbret, rpt, opc>>
    /\ UNCHANGED readerVars /\ UNCHANGED closeVars
    /\ UNCHANGED extVars

\* hid.c:1215-1228: libusb_handle_events returns without having run the callback:
\* 0 or a transient error loops, a fatal error sets the flag and breaks.
read_thread_events_return(fatal) ==
    /\ tpc = "t_events"
    /\ IF fatal
         THEN shutdown_thread' = 1 /\ tpc' = "t_cancel"
         ELSE UNCHANGED shutdown_thread /\ tpc' = "t_loop"
    /\ UNCHANGED <<transfer_loop_finished, transfer, input_reports, freed>>
    /\ UNCHANGED <<xfer, nsent, mutex, cbret, rpt, opc>>
    /\ UNCHANGED readerVars /\ UNCHANGED closeVars
    /\ UNCHANGED extVars

\* hid.c:1233: libusb_cancel_transfer; it only acts on a transfer in flight.
read_thread_cancel ==
    /\ tpc = "t_cancel"
    /\ xfer' = IF xfer = "inflight" THEN "cancelling" ELSE xfer
    /\ tpc' = "t_drain"
    /\ UNCHANGED devVars
    /\ UNCHANGED <<nsent, mutex, cbret, rpt, opc>>
    /\ UNCHANGED readerVars /\ UNCHANGED closeVars
    /\ UNCHANGED extVars

\* hid.c:1235: while (!dev->transfer_loop_finished) exits.
read_thread_drained ==
    /\ tpc = "t_drain"
    /\ transfer_loop_finished = 1
    /\ tpc' = "t_bcast_lock"
    /\ UNCHANGED devVars
    /\ UNCHANGED <<xfer, nsent, mutex, cbret, rpt, opc>>
    /\ UNCHANGED readerVars /\ UNCHANGED closeVars
    /\ UNCHANGED extVars

\* hid.c:1243: hidapi_thread_mutex_lock
read_thread_bcast_lock ==
    /\ tpc = "t_bcast_lock"
    /\ mutex = FREE
    /\ mutex' = BG
    /\ tpc' = "t_bcast"
    /\ UNCHANGED devVars
    /\ UNCHANGED <<xfer, nsent, cbret, rpt, opc>>
    /\ UNCHANGED readerVars /\ UNCHANGED closeVars
    /\ UNCHANGED extVars

\* hid.c:1244: hidapi_thread_cond_broadcast wakes every waiter.
read_thread_broadcast ==
    /\ tpc = "t_bcast"
    /\ rpc' = [r \in Readers |-> IF rpc[r] = "r_wait" THEN "r_woken" ELSE rpc[r]]
    /\ res' = [r \in Readers |-> IF rpc[r] = "r_wait" THEN WAIT_OK ELSE res[r]]
    /\ tpc' = "t_bcast_unlock"
    /\ UNCHANGED devVars
    /\ UNCHANGED <<xfer, nsent, mutex, cbret, rpt, opc>>
    /\ UNCHANGED <<ms, blen, ret, got, rdata, waited, expect, lastGot>>
    /\ UNCHANGED closeVars
    /\ UNCHANGED extVars

\* hid.c:1245-1255: unlock and return from the thread function.
read_thread_exit ==
    /\ tpc = "t_bcast_unlock"
    /\ mutex' = FREE
    /\ tpc' = "t_done"
    /\ UNCHANGED devVars
    /\ UNCHANGED <<xfer, nsent, cbret, rpt, opc>>
    /\ UNCHANGED readerVars /\ UNCHANGED closeVars
    /\ UNCHANGED extVars

\* ---------------------------------------------------------- read_callback
\* hidapi_thread_cond_signal (hid.c:1133): one waiter, if there is any, is woken.
cond_signal(r) ==
    IF \E w \in Readers : rpc[w] = "r_wait"
      THEN /\ rpc[r] = "r_wait"
           /\ rpc' = [rpc EXCEPT ![r] = "r_woken"]
           /\ res' = [res EXCEPT ![r] = WAIT_OK]
      ELSE UNCHANGED <<rpc, res>>

\* hid.c:1215/1236 into hid.c:1114-1125 and 1154-1165: the event loop runs the
\* callback of the transfer with its completion status. A completed transfer
\* is copied into a new report node; cancelled and no-device set the flag.
read_callback_entry(status, l, max) ==
    /\ \/ tpc = "t_events"
       \/ tpc = "t_drain" /\ transfer_loop_finished = 0
    /\ \/ xfer = "inflight" /\ status # "CANCELLED"
       \/ xfer = "cancelling" /\ status = "CANCELLED"
    /\ xfer' = "idle"
    /\ cbret' = tpc
    /\ IF status = "COMPLETED"
         THEN /\ nsent < max
              /\ nsent' = nsent + 1
              /\ rpt' = [id |-> nsent + 1, len |-> l,
                          data |-> transfer_buffer(nsent + 1, l)]
              /\ tpc' = "cb_lock"
              /\ UNCHANGED shutdown_thread
         ELSE /\ l = 0
              /\ shutdown_thread' =
                   IF status \in {"CANCELLED", "NO_DEVICE"} THEN 1 ELSE shutdown_thread
              /\ tpc' = "cb_check"
              /\ UNCHANGED <<nsent, rpt>>
    /\ UNCHANGED <<transfer_loop_finished, transfer, input_reports, freed, mutex, opc>>
    /\ UNCHANGED readerVars /\ UNCHANGED closeVars
    /\ UNCHANGED extVars

\* hid.c:1127: hidapi_thread_mutex_lock
read_callback_lock ==
    /\ tpc = "cb_lock"
    /\ mutex = FREE
    /\ mutex' = BG
    /\ tpc' = "cb_append"
    /\ UNCHANGED devVars
    /\ UNCHANGED <<xfer, nsent, cbret, rpt, opc>>
    /\ UNCHANGED readerVars /\ UNCHANGED closeVars
    /\ UNCHANGED extVars

\* Mutant of read_callback_append: the report put at the root of the empty
\* list is not signalled.
read_callback_append_no_signal ==
    /\ tpc = "cb_append"
    /\ rpt' = NoRpt
    /\ IF input_reports = <<>>
         THEN /\ input_reports' = <<rpt>>
              /\ UNCHANGED <<rpc, res, freed>>
         ELSE /\ input_reports' =
                   IF must_pop(input_reports)
                     THEN return_data_rest(Append(input_reports, rpt))
                     ELSE Append(input_reports, rpt)
              /\ freed' = IF must_pop(input_reports)
                             THEN return_data_free(Append(input_reports, rpt), freed)
                             ELSE freed
              /\ UNCHANGED <<rpc, res>>
    /\ tpc' = "cb_unlock"
    /\ UNCHANGED <<shutdown_thread, transfer_loop_finished, transfer>>
    /\ UNCHANGED <<xfer, nsent, mutex, cbret, opc>>
    /\ UNCHANGED <<ms, blen, ret, got, rdata, waited, expect, lastGot>>
    /\ UNCHANGED closeVars
    /\ UNCHANGED extVars

\* Mutant of read_callback_append: over the threshold the report just attached
\* is the one dropped.
read_callback_append_evicts_newest ==
    /\ tpc = "cb_append"
    /\ rpt' = NoRpt
    /\ IF input_reports = <<>>
         THEN /\ input_reports' = <<rpt>>
              /\ \E r \in Readers : cond_signal(r)
              /\ UNCHANGED freed
         ELSE /\ input_reports' =
                   IF must_pop(input_reports)
                     THEN input_reports
                     ELSE Append(input_reports, rpt)
              /\ freed' = IF must_pop(input_reports)
                             THEN Append(freed, rpt.id)
                             ELSE freed
              /\ UNCHANGED <<rpc, res>>
    /\ tpc' = "cb_unlock"
    /\ UNCHANGED <<shutdown_thread, transfer_loop_finished, transfer>>
    /\ UNCHANGED <<xfer, nsent, mutex, cbret, opc>>
    /\ UNCHANGED <<ms, blen, ret, got, rdata, waited, expect, lastGot>>
    /\ UNCHANGED closeVars
    /\ UNCHANGED extVars

\* hid.c:1129-1151, one critical section: attach the report at the tail; an
\* empty list signals a waiter, a non-empty one is walked to its end and, when
\* the walk counted more than the threshold, return_data(dev, NULL, 0) pops one.
read_callback_append ==
    /\ tpc = "cb_append"
    /\ rpt' = NoRpt
    /\ IF input_reports = <<>>
         THEN /\ input_reports' = <<rpt>>
              /\ \E r \in Readers : cond_signal(r)
              /\ UNCHANGED freed
         ELSE /\ input_reports' =
                   IF must_pop(input_reports)
                     THEN return_data_rest(Append(input_reports, rpt))
                     ELSE Append(input_reports, rpt)
              /\ freed' = IF must_pop(input_reports)
                             THEN return_data_free(Append(input_reports, rpt), freed)
                             ELSE freed
              /\ UNCHANGED <<rpc, res>>
    /\ tpc' = "cb_unlock"
    /\ UNCHANGED <<shutdown_thread, transfer_loop_finished, transfer>>
    /\ UNCHANGED <<xfer, nsent, mutex, cbret, opc>>
    /\ UNCHANGED <<ms, blen, ret, got, rdata, waited, expect, lastGot>>
    /\ UNCHANGED closeVars
    /\ UNCHANGED extVars

\* hid.c:1152: hidapi_thread_mutex_unlock
read_callback_unlock ==
    /\ tpc = "cb_unlock"
    /\ mutex' = FREE
    /\ tpc' = "cb_check"
    /\ UNCHANGED devVars
    /\ UNCHANGED <<xfer, nsent, cbret, rpt, opc>>
    /\ UNCHANGED readerVars /\ UNCHANGED closeVars
    /\ UNCHANGED extVars

\* Where the event loop continues once the callback has returned.
callback_return == IF cbret = "t_events" THEN "t_loop" ELSE "t_drain"

\* Mutant of read_callback_check: the flag is not looked at, the transfer is
\* submitted again whatever the status was.
read_callback_check_ignores_flag ==
    /\ tpc = "cb_check"
    /\ tpc' = "cb_resubmit"
    /\ UNCHANGED <<transfer_loop_finished, cbret>>
    /\ UNCHANGED <<shutdown_thread, transfer, input_reports, freed>>
    /\ UNCHANGED <<xfer, nsent, mutex, rpt, opc>>
    /\ UNCHANGED readerVars /\ UNCHANGED closeVars
    /\ UNCHANGED extVars

\* Mutant of read_callback_check: on shutdown the callback returns without
\* marking the transfer loop finished.
read_callback_check_no_finish ==
    /\ tpc = "cb_check"
    /\ IF shutdown_thread = 1
         THEN /\ UNCHANGED transfer_loop_finished
              /\ tpc' = callback_return
              /\ cbret' = "none"
         ELSE /\ tpc' = "cb_resubmit"
              /\ UNCHANGED <<transfer_loop_finished, cbret>>
    /\ UNCHANGED <<shutdown_thread, transfer, input_reports, freed>>
    /\ UNCHANGED <<xfer, nsent, mutex, rpt, opc>>
    /\ UNCHANGED readerVars /\ UNCHANGED closeVars
    /\ UNCHANGED extVars

\* hid.c:1167-1170: if (dev->shutdown_thread) the loop is finished; else resubmit.
read_callback_check ==
    /\ tpc = "cb_check"
    /\ IF shutdown_thread = 1
         THEN /\ transfer_loop_finished' = 1
              /\ tpc' = callback_return
              /\ cbret' = "none"
         ELSE /\ tpc' = "cb_resubmit"
              /\ UNCHANGED <<transfer_loop_finished, cbret>>
    /\ UNCHANGED <<shutdown_thread, transfer, input_reports, freed>>
    /\ UNCHANGED <<xfer, nsent, mutex, rpt, opc>>
    /\ UNCHANGED readerVars /\ UNCHANGED closeVars
    /\ UNCHANGED extVars

\* hid.c:1172-1178: libusb_submit_transfer; a failure stops the pipeline.
read_callback_resubmit(ok) ==
    /\ tpc = "cb_resubmit"
    /\ IF ok
         THEN /\ xfer' = "inflight"
              /\ UNCHANGED <<shutdown_thread, transfer_loop_finished>>
         ELSE /\ shutdown_thread' = 1
              /\ transfer_loop_finished' = 1
              /\ UNCHANGED xfer
    /\ tpc' = callback_return
    /\ cbret' = "none"
    /\ UNCHANGED <<transfer, input_reports, freed, nsent, mutex, rpt, opc>>
    /\ UNCHANGED readerVars /\ UNCHANGED closeVars
    /\ UNCHANGED extVars

\* ------------------------------------------------------- hid_read_timeout
\* The reader's locals once the call has returned.
reader_reset(r) ==
    /\ ms' = [ms EXCEPT ![r] = 0]
    /\ blen' = [blen EXCEPT ![r] = 0]
    /\ ret' = [ret EXCEPT ![r] = -1]
    /\ res' = [res EXCEPT ![r] = WAIT_OK]
    /\ got' = [got EXCEPT ![r] = 0]
    /\ rdata' = [rdata EXCEPT ![r] = <<>>]
    /\ waited' = [waited EXCEPT ![r] = FALSE]
    /\ expect' = [expect EXCEPT ![r] = 0]

\* return_data called from hid_read_timeout (hid.c:1688, 1705, 1719): the head
\* report is copied out (truncated to the buffer) and unlinked.
read_return_data(r) ==
    /\ ret' = [ret EXCEPT ![r] = return_data_len(input_reports, blen[r])]
    /\ got' = [got EXCEPT ![r] = Head(input_reports).id]
    /\ rdata' = [rdata EXCEPT ![r] = return_data_copy(input_reports, blen[r])]
    /\ lastGot' = Head(input_reports).id
    /\ input_reports' = return_data_rest(input_reports)
    /\ freed' = return_data_free(input_reports, freed)
    /\ rpc' = [rpc EXCEPT ![r] = "r_ret"]

\* hid.c:1680-1690: lock, bytes_read = -1, and return the head report if there is one.
hid_read_timeout_entry(r, m, b) ==
    /\ opc = "o_done"
    /\ dev_alive
    /\ rpc[r] = "r_idle"
    /\ mutex = FREE
    /\ mutex' = r
    /\ ms' = [ms EXCEPT ![r] = m]
    /\ blen' = [blen EXCEPT ![r] = b]
    /\ IF input_reports # <<>>
         THEN /\ ret' = [ret EXCEPT ![r] = return_data_len(input_reports, b)]
              /\ got' = [got EXCEPT ![r] = Head(input_reports).id]
              /\ rdata' = [rdata EXCEPT ![r] = return_data_copy(input_reports, b)]
              /\ lastGot' = Head(input_reports).id
              /\ input_reports' = return_data_rest(input_reports)
              /\ freed' = return_data_free(input_reports, freed)
              /\ rpc' = [rpc EXCEPT ![r] = "r_ret"]
         ELSE /\ rpc' = [rpc EXCEPT ![r] = "r_chks"]
              /\ UNCHANGED <<ret, got, rdata, lastGot, input_reports, freed>>
    /\ UNCHANGED <<shutdown_thread, transfer_loop_finished, transfer>>
    /\ UNCHANGED <<xfer, nsent, tpc, cbret, rpt, opc, res, waited, expect>>
    /\ UNCHANGED closeVars
    /\ UNCHANGED extVars

\* Mutant of hid_read_timeout_check: the non-blocking branch does not set
\* bytes_read, which is still -1.
hid_read_timeout_check_no_else(r) ==
    /\ dev_alive
    /\ rpc[r] = "r_chks"
    /\ IF shutdown_thread = 1
         THEN /\ ret' = [ret EXCEPT ![r] = -1]
              /\ rpc' = [rpc EXCEPT ![r] = "r_ret"]
         ELSE IF ms[r] = -1 \/ ms[r] > 0
                THEN /\ rpc' = [rpc EXCEPT ![r] = "r_loop"]
                     /\ UNCHANGED ret
                ELSE /\ UNCHANGED ret
                     /\ rpc' = [rpc EXCEPT ![r] = "r_ret"]
    /\ UNCHANGED devVars
    /\ UNCHANGED <<xfer, nsent, mutex, tpc, cbret, rpt, opc>>
    /\ UNCHANGED <<ms, blen, res, got, rdata, waited, expect, lastGot>>
    /\ UNCHANGED closeVars
    /\ UNCHANGED extVars

\* Mutant of hid_read_timeout_check: the timed branch tests milliseconds >= 0.
hid_read_timeout_check_timed0(r) ==
    /\ dev_alive
    /\ rpc[r] = "r_chks"
    /\ IF shutdown_thread = 1
         THEN /\ ret' = [ret EXCEPT ![r] = -1]
              /\ rpc' = [rpc EXCEPT ![r] = "r_ret"]
         ELSE IF ms[r] = -1 \/ ms[r] >= 0
                THEN /\ rpc' = [rpc EXCEPT ![r] = "r_loop"]
                     /\ UNCHANGED ret
                ELSE /\ ret' = [ret EXCEPT ![r] = 0]
                     /\ rpc' = [rpc EXCEPT ![r] = "r_ret"]
    /\ UNCHANGED devVars
    /\ UNCHANGED <<xfer, nsent, mutex, tpc, cbret, rpt, opc>>
    /\ UNCHANGED <<ms, blen, res, got, rdata, waited, expect, lastGot>>
    /\ UNCHANGED closeVars
    /\ UNCHANGED extVars

\* hid.c:1692-1697 and the dispatch on milliseconds (hid.c:1699, 1708, 1739-1742):
\* a set flag returns -1; otherwise the blocking modes go to their wait loop and
\* the non-blocking mode returns 0.
hid_read_timeout_check(r) ==
    /\ dev_alive
    /\ rpc[r] = "r_chks"
    /\ IF shutdown_thread = 1
         THEN /\ ret' = [ret EXCEPT ![r] = -1]
              /\ rpc' = [rpc EXCEPT ![r] = "r_ret"]
         ELSE IF ms[r] = -1 \/ ms[r] > 0
                THEN /\ rpc' = [rpc EXCEPT ![r] = "r_loop"]
                     /\ UNCHANGED ret
                ELSE /\ ret' = [ret EXCEPT ![r] = 0]
                     /\ rpc' = [rpc EXCEPT ![r] = "r_ret"]
    /\ UNCHANGED devVars
    /\ UNCHANGED <<xfer, nsent, mutex, tpc, cbret, rpt, opc>>
    /\ UNCHANGED <<ms, blen, res, got, rdata, waited, expect, lastGot>>
    /\ UNCHANGED closeVars
    /\ UNCHANGED extVars

\* History: the id of the report the callback will enqueue next.
next_report_id == IF rpt # NoRpt THEN rpt.id ELSE nsent + 1

\* hid.c:1701-1702 and 1715-1716: the loop condition with the queue empty reads
\* the flag; clear, the reader waits on the condition (releasing the mutex), set,
\* the loop ends with bytes_read still -1. A timed wait may fail at once.
hid_read_timeout_wait(r, err) ==
    /\ dev_alive
    /\ rpc[r] = "r_loop"
    /\ IF shutdown_thread = 1
         THEN /\ ~err
              /\ rpc' = [rpc EXCEPT ![r] = "r_ret"]
              /\ UNCHANGED <<mutex, res, waited, expect, ret>>
         ELSE IF err
                THEN /\ ms[r] > 0
                     /\ res' = [res EXCEPT ![r] = WAIT_ERROR]
                     /\ ret' = [ret EXCEPT ![r] = -1]
                     /\ rpc' = [rpc EXCEPT ![r] = "r_ret"]
                     /\ UNCHANGED <<mutex, waited, expect>>
                ELSE /\ mutex' = FREE
                     /\ waited' = [waited EXCEPT ![r] = TRUE]
                     /\ expect' = [expect EXCEPT ![r] = next_report_id]
                     /\ rpc' = [rpc EXCEPT ![r] = "r_wait"]
                     /\ UNCHANGED <<res, ret>>
    /\ UNCHANGED devVars
    /\ UNCHANGED <<xfer, nsent, tpc, cbret, rpt, opc>>
    /\ UNCHANGED <<ms, blen, got, rdata, lastGot>>
    /\ UNCHANGED closeVars
    /\ UNCHANGED extVars

\* hidapi_thread_cond_timedwait: the deadline passes while the reader waits.
cond_timedwait_timeout(r) ==
    /\ dev_alive
    /\ rpc[r] = "r_wait"
    /\ ms[r] > 0
    /\ rpc' = [rpc EXCEPT ![r] = "r_woken"]
    /\ res' = [res EXCEPT ![r] = WAIT_TIMED_OUT]
    /\ UNCHANGED devVars
    /\ UNCHANGED <<xfer, nsent, mutex, tpc, cbret, rpt, opc>>
    /\ UNCHANGED <<ms, blen, ret, got, rdata, waited, expect, lastGot>>
    /\ UNCHANGED closeVars
    /\ UNCHANGED extVars

\* hidapi_thread_cond_wait / _timedwait: a spurious wake-up.
cond_spurious_wakeup(r) ==
    /\ dev_alive
    /\ rpc[r] = "r_wait"
    /\ rpc' = [rpc EXCEPT ![r] = "r_woken"]
    /\ res' = [res EXCEPT ![r] = WAIT_OK]
    /\ UNCHANGED devVars
    /\ UNCHANGED <<xfer, nsent, mutex, tpc, cbret, rpt, opc>>
    /\ UNCHANGED <<ms, blen, ret, got, rdata, waited, expect, lastGot>>
    /\ UNCHANGED closeVars
    /\ UNCHANGED extVars

\* Mutant of hid_read_timeout_woken: a timed wait that wakes without a report
\* is treated as a timeout instead of looping.
hid_read_timeout_woken_wake_is_timeout(r) ==
    /\ dev_alive
    /\ rpc[r] = "r_woken"
    /\ mutex = FREE
    /\ mutex' = r
    /\ IF ms[r] > 0 /\ res[r] = WAIT_TIMED_OUT
         THEN /\ ret' = [ret EXCEPT ![r] = 0]
              /\ rpc' = [rpc EXCEPT ![r] = "r_ret"]
              /\ UNCHANGED <<got, rdata, lastGot, input_reports, freed>>
         ELSE IF input_reports # <<>>
                THEN read_return_data(r)
                ELSE /\ rpc' = [rpc EXCEPT ![r] = IF ms[r] > 0 THEN "r_ret" ELSE "r_loop"]
                     /\ ret' = [ret EXCEPT ![r] = IF ms[r] > 0 THEN 0 ELSE ret[r]]
                     /\ UNCHANGED <<got, rdata, lastGot, input_reports, freed>>
    /\ UNCHANGED <<shutdown_thread, transfer_loop_finished, transfer>>
    /\ UNCHANGED <<xfer, nsent, tpc, cbret, rpt, opc>>
    /\ UNCHANGED <<ms, blen, res, waited, expect>>
    /\ UNCHANGED closeVars
    /\ UNCHANGED extVars

\* hid.c:1701-1706 and 1716-1736: the wait returns with the mutex held again.
\* Infinite: a queued report ends the loop and is returned. Timed: a wake with
\* a report returns it, a wake without one loops, a timeout returns 0.
hid_read_timeout_woken(r) ==
    /\ dev_alive
    /\ rpc[r] = "r_woken"
    /\ mutex = FREE
    /\ mutex' = r
    /\ IF ms[r] > 0 /\ res[r] = WAIT_TIMED_OUT
         THEN /\ ret' = [ret EXCEPT ![r] = 0]
              /\ rpc' = [rpc EXCEPT ![r] = "r_ret"]
              /\ UNCHANGED <<got, rdata, lastGot, input_reports, freed>>
         ELSE IF input_reports # <<>>
                THEN read_return_data(r)
                ELSE /\ rpc' = [rpc EXCEPT ![r] = "r_loop"]
                     /\ UNCHANGED <<ret, got, rdata, lastGot, input_reports, freed>>
    /\ UNCHANGED <<shutdown_thread, transfer_loop_finished, transfer>>
    /\ UNCHANGED <<xfer, nsent, tpc, cbret, rpt, opc>>
    /\ UNCHANGED <<ms, blen, res, waited, expect>>
    /\ UNCHANGED closeVars
    /\ UNCHANGED extVars

\* hid.c:1744-1748: unlock and return bytes_read.
hid_read_timeout_return(r) ==
    /\ dev_alive
    /\ rpc[r] = "r_ret"
    /\ mutex' = FREE
    /\ rpc' = [rpc EXCEPT ![r] = "r_idle"]
    /\ reader_reset(r)
    /\ UNCHANGED devVars
    /\ UNCHANGED <<xfer, nsent, tpc, cbret, rpt, opc, lastGot>>
    /\ UNCHANGED closeVars
    /\ UNCHANGED extVars

\* -------------------------------------------------------------- hid_close
\* hid.c:1859-1860: dev->shutdown_thread = 1
hid_close_shutdown ==
    /\ opc = "o_done"
    /\ cpc = "c_idle"
    /\ shutdown_thread' = 1
    /\ cpc' = "c_cancel"
    /\ UNCHANGED <<transfer_loop_finished, transfer, input_reports, freed>>
    /\ UNCHANGED <<xfer, nsent, mutex, tpc, cbret, rpt, opc>>
    /\ UNCHANGED readerVars
    /\ UNCHANGED <<iface, handle, dev_alive>>
    /\ UNCHANGED extVars

\* hid.c:1861: libusb_cancel_transfer(dev->transfer)
hid_close_cancel ==
    /\ cpc = "c_cancel"
    /\ xfer' = IF xfer = "inflight" THEN "cancelling" ELSE xfer
    /\ cpc' = "c_join"
    /\ UNCHANGED devVars
    /\ UNCHANGED <<nsent, mutex, tpc, cbret, rpt, opc>>
    /\ UNCHANGED readerVars
    /\ UNCHANGED <<iface, handle, dev_alive>>
    /\ UNCHANGED extVars

\* Mutant of hid_close_join: close goes on without waiting for the thread.
hid_close_join_skipped ==
    /\ cpc = "c_join"
    /\ cpc' = "c_free_transfer"
    /\ UNCHANGED devVars
    /\ UNCHANGED <<xfer, nsent, mutex, tpc, cbret, rpt, opc>>
    /\ UNCHANGED readerVars
    /\ UNCHANGED <<iface, handle, dev_alive>>
    /\ UNCHANGED extVars

\* hid.c:1864: hidapi_thread_join returns once read_thread has returned.
hid_close_join ==
    /\ cpc = "c_join"
    /\ tpc = "t_done"
    /\ cpc' = "c_free_transfer"
    /\ UNCHANGED devVars
    /\ UNCHANGED <<xfer, nsent, mutex, tpc, cbret, rpt, opc>>
    /\ UNCHANGED readerVars
    /\ UNCHANGED <<iface, handle, dev_alive>>
    /\ UNCHANGED extVars

\* hid.c:1866-1869: free the transfer's buffer and the transfer.
hid_close_free_transfer ==
    /\ cpc = "c_free_transfer"
    /\ transfer' = "freed"
    /\ cpc' = "c_release"
    /\ UNCHANGED <<shutdown_thread, transfer_loop_finished, input_reports, freed>>
    /\ UNCHANGED <<xfer, nsent, mutex, tpc, cbret, rpt, opc>>
    /\ UNCHANGED readerVars
    /\ UNCHANGED <<iface, handle, dev_alive>>
    /\ UNCHANGED extVars

\* hid.c:1871-1881: release the interface (and re-attach the kernel driver).
hid_close_release ==
    /\ cpc = "c_release"
    /\ iface' = "released"
    /\ cpc' = "c_close_handle"
    /\ UNCHANGED devVars
    /\ UNCHANGED <<xfer, nsent, mutex, tpc, cbret, rpt, opc>>
    /\ UNCHANGED readerVars
    /\ UNCHANGED <<handle, dev_alive>>
    /\ UNCHANGED extVars

\* hid.c:1883-1884: libusb_close
hid_close_handle ==
    /\ cpc = "c_close_handle"
    /\ handle' = "closed"
    /\ cpc' = "c_lock"
    /\ UNCHANGED devVars
    /\ UNCHANGED <<xfer, nsent, mutex, tpc, cbret, rpt, opc>>
    /\ UNCHANGED readerVars
    /\ UNCHANGED <<iface, dev_alive>>
    /\ UNCHANGED extVars

\* hid.c:1887: hidapi_thread_mutex_lock
hid_close_lock ==
    /\ cpc = "c_lock"
    /\ mutex = FREE
    /\ mutex' = APP
    /\ cpc' = "c_drain"
    /\ UNCHANGED devVars
    /\ UNCHANGED <<xfer, nsent, tpc, cbret, rpt, opc>>
    /\ UNCHANGED readerVars
    /\ UNCHANGED <<iface, handle, dev_alive>>
    /\ UNCHANGED extVars

\* Mutant of hid_close_drain: only the first queued report is freed.
hid_close_drain_first_only ==
    /\ cpc = "c_drain"
    /\ IF input_reports # <<>>
         THEN /\ input_reports' = return_data_rest(input_reports)
              /\ freed' = return_data_free(input_reports, freed)
              /\ cpc' = "c_unlock"
         ELSE /\ cpc' = "c_unlock"
              /\ UNCHANGED <<input_reports, freed>>
    /\ UNCHANGED <<shutdown_thread, transfer_loop_finished, transfer>>
    /\ UNCHANGED <<xfer, nsent, mutex, tpc, cbret, rpt, opc>>
    /\ UNCHANGED readerVars
    /\ UNCHANGED <<iface, handle, dev_alive>>
    /\ UNCHANGED extVars

\* hid.c:1888-1890: while (dev->input_reports) return_data(dev, NULL, 0);
hid_close_drain ==
    /\ cpc = "c_drain"
    /\ IF input_reports # <<>>
         THEN /\ input_reports' = return_data_rest(input_reports)
              /\ freed' = return_data_free(input_reports, freed)
              /\ UNCHANGED cpc
         ELSE /\ cpc' = "c_unlock"
              /\ UNCHANGED <<input_reports, freed>>
    /\ UNCHANGED <<shutdown_thread, transfer_loop_finished, transfer>>
    /\ UNCHANGED <<xfer, nsent, mutex, tpc, cbret, rpt, opc>>
    /\ UNCHANGED readerVars
    /\ UNCHANGED <<iface, handle, dev_alive>>
    /\ UNCHANGED extVars

\* hid.c:1891: hidapi_thread_mutex_unlock
hid_close_unlock ==
    /\ cpc = "c_unlock"
    /\ mutex' = FREE
    /\ cpc' = "c_free"
    /\ UNCHANGED devVars
    /\ UNCHANGED <<xfer, nsent, tpc, cbret, rpt, opc>>
    /\ UNCHANGED readerVars
    /\ UNCHANGED <<iface, handle, dev_alive>>
    /\ UNCHANGED extVars

\* hid.c:1893 / free_hid_device (hid.c:164-173): the mutex and condition are
\* destroyed and the session is freed.
hid_close_free ==
    /\ cpc = "c_free"
    /\ dev_alive' = FALSE
    /\ cpc' = "c_done"
    /\ UNCHANGED devVars
    /\ UNCHANGED <<xfer, nsent, mutex, tpc, cbret, rpt, opc>>
    /\ UNCHANGED readerVars
    /\ UNCHANGED <<iface, handle>>
    /\ UNCHANGED extVars

\* free_hid_device has run under a read still in progress: what the reader
\* does on the destroyed mutex and the freed session is undefined.
read_after_free(r) ==
    /\ ~dev_alive
    /\ rpc[r] \notin {"r_idle", "r_ub"}
    /\ rpc' = [rpc EXCEPT ![r] = "r_ub"]
    /\ UNCHANGED devVars
    /\ UNCHANGED <<xfer, nsent, mutex, tpc, cbret, rpt, opc>>
    /\ UNCHANGED <<ms, blen, ret, res, got, rdata, waited, expect, lastGot>>
    /\ UNCHANGED closeVars
    /\ UNCHANGED extVars

\* ---------------------------------------------------------- hid_open_path
pipeIdle == <<xfer, nsent, mutex, cbret, rpt>>
CurDev == devs[open_d]
CurIntf == CurDev.interface[open_j]
CurAlt == CurIntf[open_k]
\* The interface a kernel driver is bound to or detached from.
CurKey == <<open_d, CurAlt.num>>
Tried(end, was_detached, attach_called) ==
    [cand |-> <<open_d, open_j, open_k>>, end |-> end,
     was_detached |-> was_detached, attach_called |-> attach_called]

\* hid.c:1460-1473 and 1497: while ((usb_dev = devs[d++]) != NULL && !good_open);
\* a device whose descriptor or configuration cannot be read is skipped.
hid_open_path_device ==
    /\ hpc = "p_dev"
    /\ IF open_d > Len(devs) \/ good_open = 1
         THEN /\ hpc' = "p_end"
              /\ UNCHANGED <<open_d, open_j>>
         ELSE IF ~CurDev.readable \/ ~CurDev.conf
           THEN /\ open_d' = open_d + 1
                /\ UNCHANGED <<hpc, open_j>>
           ELSE /\ open_j' = 1
                /\ hpc' = "p_intf"
                /\ UNCHANGED open_d
    /\ UNCHANGED <<path, open_k, good_open, oret, tried>>
    /\ UNCHANGED <<busVars, sessionVars, devVars, readerVars, closeVars, pipeIdle, tpc, opc>>
    /\ UNCHANGED <<io, enumVars, sideVars>>

\* hid.c:1475-1476: for (j = 0; j < conf_desc->bNumInterfaces && !good_open; j++)
hid_open_path_interface ==
    /\ hpc = "p_intf"
    /\ IF open_j > Len(CurDev.interface) \/ good_open = 1
         THEN /\ open_d' = open_d + 1
              /\ hpc' = "p_dev"
              /\ UNCHANGED open_k
         ELSE /\ open_k' = 1
              /\ hpc' = "p_alt"
              /\ UNCHANGED open_d
    /\ UNCHANGED <<path, open_j, good_open, oret, tried>>
    /\ UNCHANGED <<busVars, sessionVars, devVars, readerVars, closeVars, pipeIdle, tpc, opc>>
    /\ UNCHANGED <<io, enumVars, sideVars>>

\* Mutant of hid_open_path_altsetting: the path is compared without asking
\* should_enumerate_interface.
hid_open_path_altsetting_any_class ==
    /\ hpc = "p_alt"
    /\ IF open_k > Len(CurIntf) \/ good_open = 1
         THEN /\ open_j' = open_j + 1
              /\ hpc' = "p_intf"
              /\ UNCHANGED open_k
         ELSE IF get_path(CurDev, CurAlt.num) = path
           THEN /\ hpc' = "p_open"
                /\ UNCHANGED <<open_j, open_k>>
           ELSE /\ open_k' = open_k + 1
                /\ UNCHANGED <<hpc, open_j>>
    /\ UNCHANGED <<path, open_d, good_open, oret, tried>>
    /\ UNCHANGED <<busVars, sessionVars, devVars, readerVars, closeVars, pipeIdle, tpc, opc>>
    /\ UNCHANGED <<io, enumVars, sideVars>>

\* hid.c:1477-1482: for (k = 0; k < intf->num_altsetting && !good_open; k++),
\* should_enumerate_interface and the comparison of the paths.
hid_open_path_altsetting ==
    /\ hpc = "p_alt"
    /\ IF open_k > Len(CurIntf) \/ good_open = 1
         THEN /\ open_j' = open_j + 1
              /\ hpc' = "p_intf"
              /\ UNCHANGED open_k
         ELSE IF /\ should_enumerate_interface(CurDev.vid, CurAlt)
                 /\ get_path(CurDev, CurAlt.num) = path
           THEN /\ hpc' = "p_open"
                /\ UNCHANGED <<open_j, open_k>>
           ELSE /\ open_k' = open_k + 1
                /\ UNCHANGED <<hpc, open_j>>
    /\ UNCHANGED <<path, open_d, good_open, oret, tried>>
    /\ UNCHANGED <<busVars, sessionVars, devVars, readerVars, closeVars, pipeIdle, tpc, opc>>
    /\ UNCHANGED <<io, enumVars, sideVars>>

\* hid.c:1486-1490: libusb_open; a failure breaks out of the altsetting loop.
hid_open_path_open(ok) ==
    /\ hpc = "p_open"
    /\ IF ok
         THEN /\ handle' = "open"
              /\ hpc' = "p_detach"
              /\ UNCHANGED <<open_j, tried>>
         ELSE /\ open_j' = open_j + 1
              /\ hpc' = "p_intf"
              /\ tried' = Append(tried, Tried("open_failed", FALSE, FALSE))
              /\ UNCHANGED handle
    /\ UNCHANGED <<path, open_d, open_k, good_open, oret>>
    /\ UNCHANGED <<busVars, sessionVars, devVars, readerVars, pipeIdle, tpc, opc>>
    /\ UNCHANGED <<cpc, iface, dev_alive>>
    /\ UNCHANGED <<io, enumVars, sideVars>>

\* --------------------------------------------------- hidapi_initialize_device
\* Mutant of initialize_detach: a failed detach is only logged and the open
\* goes on to claim the interface.
initialize_detach_failure_ignored(ok) ==
    /\ hpc = "p_detach"
    /\ IF kactive /\ CurKey \notin detached
         THEN IF ok
                THEN /\ detached' = detached \cup {CurKey}
                     /\ is_driver_detached' = 1
                     /\ hpc' = "p_claim"
                     /\ UNCHANGED tried
                ELSE /\ is_driver_detached' = 0
                     /\ hpc' = "p_claim"
                     /\ tried' = Append(tried, Tried("detach_failed", FALSE, FALSE))
                     /\ UNCHANGED detached
         ELSE /\ ok
              /\ is_driver_detached' = 0
              /\ hpc' = "p_claim"
              /\ UNCHANGED <<detached, tried>>
    /\ UNCHANGED <<devs, kactive, path, open_d, open_j, open_k, good_open, oret>>
    /\ UNCHANGED <<input_endpoint, output_endpoint, skip_output_report_id,
                   no_skip_output_report_id, no_output_reports_on_intr_ep, blocking>>
    /\ UNCHANGED <<devVars, readerVars, closeVars, pipeIdle, tpc, opc>>
    /\ UNCHANGED <<io, enumVars, sideVars>>

\* hid.c:1343-1358: is_driver_detached = 0; an active kernel driver is detached;
\* when that fails hidapi_initialize_device returns 0.
initialize_detach(ok) ==
    /\ hpc = "p_detach"
    /\ IF kactive /\ CurKey \notin detached
         THEN IF ok
                THEN /\ detached' = detached \cup {CurKey}
                     /\ is_driver_detached' = 1
                     /\ hpc' = "p_claim"
                     /\ UNCHANGED tried
                ELSE /\ is_driver_detached' = 0
                     /\ hpc' = "p_fail"
                     /\ tried' = Append(tried, Tried("detach_failed", FALSE, FALSE))
                     /\ UNCHANGED detached
         ELSE /\ ok
              /\ is_driver_detached' = 0
              /\ hpc' = "p_claim"
              /\ UNCHANGED <<detached, tried>>
    /\ UNCHANGED <<devs, kactive, path, open_d, open_j, open_k, good_open, oret>>
    /\ UNCHANGED <<input_endpoint, output_endpoint, skip_output_report_id,
                   no_skip_output_report_id, no_output_reports_on_intr_ep, blocking>>
    /\ UNCHANGED <<devVars, readerVars, closeVars, pipeIdle, tpc, opc>>
    /\ UNCHANGED <<io, enumVars, sideVars>>

\* Mutant of initialize_claim: a failed claim returns without re-attaching.
initialize_claim_no_reattach(ok, attach_ok) ==
    /\ hpc = "p_claim"
    /\ IF ok
         THEN /\ iface' = "claimed"
              /\ hpc' = "p_setup"
              /\ UNCHANGED <<detached, tried>>
         ELSE /\ hpc' = "p_fail"
              /\ IF FALSE
                   THEN detached' = IF attach_ok THEN detached \ {CurKey} ELSE detached
                   ELSE attach_ok /\ UNCHANGED detached
              /\ tried' = Append(tried, Tried("claim_failed", is_driver_detached = 1,
                                              FALSE))
              /\ UNCHANGED iface
    /\ UNCHANGED <<devs, kactive, path, open_d, open_j, open_k, good_open, oret>>
    /\ UNCHANGED <<sessionVars, devVars, readerVars, pipeIdle, tpc, opc>>
    /\ UNCHANGED <<cpc, handle, dev_alive>>
    /\ UNCHANGED <<io, enumVars, sideVars>>

\* hid.c:1359-1371: libusb_claim_interface; on failure the driver this open
\* detached is re-attached (which may itself fail, and is then only logged) and
\* hidapi_initialize_device returns 0.
initialize_claim(ok, attach_ok) ==
    /\ hpc = "p_claim"
    /\ IF ok
         THEN /\ iface' = "claimed"
              /\ hpc' = "p_setup"
              /\ UNCHANGED <<detached, tried>>
         ELSE /\ hpc' = "p_fail"
              /\ IF is_driver_detached = 1
                   THEN detached' = IF attach_ok THEN detached \ {CurKey} ELSE detached
                   ELSE attach_ok /\ UNCHANGED detached
              /\ tried' = Append(tried, Tried("claim_failed", is_driver_detached = 1,
                                              is_driver_detached = 1))
              /\ UNCHANGED iface
    /\ UNCHANGED <<devs, kactive, path, open_d, open_j, open_k, good_open, oret>>
    /\ UNCHANGED <<sessionVars, devVars, readerVars, pipeIdle, tpc, opc>>
    /\ UNCHANGED <<cpc, handle, dev_alive>>
    /\ UNCHANGED <<io, enumVars, sideVars>>

\* hid.c:1296-1298: bAlternateSetting of the k-th alternate setting; devices
\* number their alternate settings from 0 in the order they list them.
bAlternateSetting(k) == k - 1

\* Mutant of xb1_sets_alt: interface 0 is switched whatever the vendor.
xb1_sets_alt_any_vendor(idVendor, intf_desc, alt) ==
    /\ intf_desc.cls = LIBUSB_CLASS_VENDOR_SPEC
    /\ intf_desc.sub = xb1_iface_subclass
    /\ intf_desc.proto = xb1_iface_protocol
    /\ \/ intf_desc.num = 0 /\ alt = 1
       \/ intf_desc.num # 0 /\ alt = 0

\* init_xboxone (hid.c:1289-1300): bSetAlternateSetting for one alternate
\* setting descriptor of the configuration.
xb1_sets_alt(idVendor, intf_desc, alt) ==
    /\ intf_desc.cls = LIBUSB_CLASS_VENDOR_SPEC
    /\ intf_desc.sub = xb1_iface_subclass
    /\ intf_desc.proto = xb1_iface_protocol
    /\ \/ idVendor = vendor_microsoft /\ intf_desc.num = 0 /\ alt = 1
       \/ intf_desc.num # 0 /\ alt = 0

\* init_xboxone (hid.c:1285-1320) from alternate setting k of interface j on:
\* for each descriptor to switch, the interface is claimed (busy: the interface
\* numbers whose claim fails, which are passed over, hid.c:1303-1307), set to
\* the alternate setting of the descriptor (hid.c:1311) and released
\* (hid.c:1316). The result is, in order, one
\* <<interface number, alternate setting, claimed>> entry per descriptor to
\* switch; the alternate setting is set, and the interface released, exactly
\* for the entries whose claim succeeded.
RECURSIVE init_xboxone_from(_, _, _, _, _)
init_xboxone_from(idVendor, intfs, busy, j, k) ==
    IF j > Len(intfs) THEN <<>>
    ELSE IF k > Len(intfs[j]) THEN init_xboxone_from(idVendor, intfs, busy, j + 1, 1)
    ELSE (IF xb1_sets_alt(idVendor, intfs[j][k], bAlternateSetting(k))
            THEN << <<intfs[j][k].num, bAlternateSetting(k),
                      intfs[j][k].num \notin busy>> >>
            ELSE <<>>)
         \o init_xboxone_from(idVendor, intfs, busy, j, k + 1)

\* hid.c:1379-1382: init_xboxone runs when the interface opened is an Xbox One one.
init_xboxone(usb_dev, intf_desc, busy) ==
    IF is_xboxone(usb_dev.vid, intf_desc)
      THEN init_xboxone_from(usb_dev.vid, usb_dev.interface, busy, 1, 1)
      ELSE <<>>

\* hid.c:1262-1264: the vendors and products init_xbox360 sends the transfer to
VENDOR_GAMESIR == 1452
PRODUCT_GAMESIR_G3W == 1371
VENDOR_POWERA == 8406
PRODUCT_POWERA_BATTLE_DRAGON == 16400
\* hid.c:1272: bmRequestType, bRequest and wValue of the transfer
UnlockTransfer == <<193, 1, 256>>

\* init_xbox360 (hid.c:1258-1274): the control transfers it makes; the result
\* of libusb_control_transfer is not looked at.
init_xbox360(idVendor, idProduct) ==
    IF \/ idVendor = VENDOR_GAMESIR /\ idProduct = PRODUCT_GAMESIR_G3W
       \/ idVendor = VENDOR_POWERA /\ idProduct = PRODUCT_POWERA_BATTLE_DRAGON
       \/ idVendor = VENDOR_HORI
      THEN <<UnlockTransfer>>
      ELSE <<>>

\* The interface numbers of the device other than the one being opened.
OtherInterfaces == {CurDev.interface[j][1].num : j \in 1..Len(CurDev.interface)} \ {CurAlt.num}

\* hid.c:1373-1436: the Xbox initialisation (init_xbox360 runs only when
\* is_xbox360 holds, hid.c:1374-1377), the descriptor indexes, the endpoints
\* and the quirks are stored in the session, then hidapi_thread_create starts
\* read_thread. The claim of the session's own interface in init_xboxone is a
\* second claim on the same handle and succeeds; its release un-claims it.
initialize_setup(busy) ==
    /\ hpc = "p_setup"
    /\ busy \subseteq OtherInterfaces
    /\ LET switched == init_xboxone(CurDev, CurAlt, busy)
       IN  /\ altcalls' = altcalls \o switched
           /\ iface' = IF \E n \in 1..Len(switched) :
                               switched[n][1] = CurAlt.num /\ switched[n][3]
                          THEN "released" ELSE iface
    /\ unlocks' = unlocks \o (IF is_xbox360(CurDev.vid, CurAlt)
                                THEN init_xbox360(CurDev.vid, CurDev.pid)
                                ELSE <<>>)
    /\ LET ses == SessionOf(CurDev, CurAlt)
       IN  /\ input_endpoint' = ses.input_endpoint
           /\ output_endpoint' = ses.output_endpoint
           /\ skip_output_report_id' = ses.skip_output_report_id
           /\ no_skip_output_report_id' = ses.no_skip_output_report_id
           /\ no_output_reports_on_intr_ep' = ses.no_output_reports_on_intr_ep
    /\ tpc' = "t_alloc"
    /\ opc' = "o_barrier"
    /\ hpc' = "p_barrier"
    /\ UNCHANGED <<blocking, is_driver_detached>>
    /\ UNCHANGED <<path, open_d, open_j, open_k, good_open, oret, tried>>
    /\ UNCHANGED <<busVars, devVars, readerVars, pipeIdle>>
    /\ UNCHANGED <<cpc, handle, dev_alive>>
    /\ UNCHANGED <<io, enumVars, first_submit, call>>

\* hid.c:1439-1440 and 1491: past the barrier hidapi_initialize_device returns 1
\* into good_open, which ends the three loops.
initialize_return ==
    /\ hpc = "p_barrier"
    /\ opc = "o_done"
    /\ good_open' = 1
    /\ tried' = Append(tried, Tried("opened", is_driver_detached = 1, FALSE))
    /\ open_k' = open_k + 1
    /\ hpc' = "p_alt"
    /\ UNCHANGED <<path, open_d, open_j, oret>>
    /\ UNCHANGED <<busVars, sessionVars, devVars, readerVars, closeVars, pipeIdle, tpc, opc>>
    /\ UNCHANGED <<io, enumVars, sideVars>>

\* hid.c:1491-1493: good_open = 0 and libusb_close(dev->device_handle); the
\* altsetting loop goes on.
hid_open_path_close_failed ==
    /\ hpc = "p_fail"
    /\ good_open' = 0
    /\ handle' = "closed"
    /\ open_k' = open_k + 1
    /\ hpc' = "p_alt"
    /\ UNCHANGED <<path, open_d, open_j, oret, tried>>
    /\ UNCHANGED <<busVars, sessionVars, devVars, readerVars, pipeIdle, tpc, opc>>
    /\ UNCHANGED <<cpc, iface, dev_alive>>
    /\ UNCHANGED <<io, enumVars, sideVars>>

\* hid.c:1500-1511: return the session, or free it and return NULL.
hid_open_path_return ==
    /\ hpc = "p_end"
    /\ hpc' = "p_ret"
    /\ IF good_open = 1
         THEN oret' = "dev" /\ UNCHANGED dev_alive
         ELSE oret' = "null" /\ dev_alive' = FALSE
    /\ UNCHANGED <<path, open_d, open_j, open_k, good_open, tried>>
    /\ UNCHANGED <<busVars, sessionVars, devVars, readerVars, pipeIdle, tpc, opc>>
    /\ UNCHANGED <<cpc, iface, handle>>
    /\ UNCHANGED <<io, enumVars, sideVars>>

\* ------------------------------------------- hid_write and report requests
\* HID class requests and report types (hid.c:1612-1613, 1778-1779, 1809-1810, 1839-1840)
HID_SET_REPORT == 9
HID_GET_REPORT == 1
HID_INPUT == 1
HID_OUTPUT == 2
HID_FEATURE == 3

\* The caller holds a session that hid_open_path has returned and has not closed.
SessionUsable == opc = "o_done" /\ cpc = "c_idle" /\ dev_alive

allButIo == <<devVars, readerVars, closeVars, pipeIdle, tpc, opc,
              busVars, openVars, sessionVars, enumVars, sideVars>>

\* Caller buffers: 1..MaxIoLen bytes, the first one the report number.
ByteVals == {0, 7}
Buffers == UNION {[1..n -> ByteVals] : n \in 1..MaxIoLen}

\* Mutant of write_skips_report_id: a leading 0 is always stripped.
write_skips_report_id_always_on_zero(data) ==
    data[1] = 0 \/ skip_output_report_id = 1

\* hid.c:1601: whether hid_write strips the first byte.
write_skips_report_id(data) ==
    (no_skip_output_report_id = 0 /\ data[1] = 0) \/ skip_output_report_id = 1

\* Mutant of write_uses_control: only the missing endpoint selects the control pipe.
write_uses_control_endpoint_only == output_endpoint <= 0

\* hid.c:1608: whether hid_write uses the control endpoint.
write_uses_control == output_endpoint <= 0 \/ no_output_reports_on_intr_ep = 1

\* Mutant of hid_write: a failed transfer marks the device disconnected.
hid_write_failure_disconnects(data, ok, actual) ==
    /\ SessionUsable
    /\ IF data = <<>>
         THEN /\ ok /\ actual = 0
              /\ io' = [NoIo EXCEPT !.op = "write", !.ret = -1]
         ELSE LET report_number == data[1]
                  skipped_report_id == IF write_skips_report_id(data) THEN 1 ELSE 0
                  payload == IF skipped_report_id = 1 THEN Tail(data) ELSE data
              IN  IF write_uses_control
                    THEN /\ actual = Len(payload)
                         /\ io' = [op |-> "write", via |-> "control",
                                   request |-> HID_SET_REPORT,
                                   wValue |-> HID_OUTPUT * 256 + report_number,
                                   data |-> data, sent |-> payload,
                                   length |-> Len(payload) % 65536,
                                   actual |-> actual,
                                   ret |-> IF ok THEN Len(payload) + skipped_report_id
                                                 ELSE -1]
                    ELSE /\ actual \in 0..Len(payload)
                         /\ io' = [op |-> "write", via |-> "interrupt",
                                   request |-> output_endpoint,
                                   wValue |-> 0,
                                   data |-> data, sent |-> payload,
                                   length |-> actual,
                                   actual |-> actual,
                                   ret |-> IF ok THEN actual + skipped_report_id
                                                 ELSE -1]
    /\ shutdown_thread' = IF data # <<>> /\ ~ok THEN 1 ELSE shutdown_thread
    /\ UNCHANGED <<transfer_loop_finished, transfer, input_reports, freed>>
    /\ UNCHANGED <<readerVars, closeVars, pipeIdle, tpc, opc>>
    /\ UNCHANGED <<busVars, openVars, sessionVars, enumVars, sideVars>>

\* hid.c:1589-1643: a NULL or empty buffer returns -1 at once; otherwise the
\* payload goes out as a Set_Report(Output) control transfer or on the
\* interrupt OUT endpoint, and a stripped report number is counted back in.
hid_write(data, ok, actual) ==
    /\ SessionUsable
    /\ IF data = <<>>
         THEN /\ ok /\ actual = 0
              /\ io' = [NoIo EXCEPT !.op = "write", !.ret = -1]
         ELSE LET report_number == data[1]
                  skipped_report_id == IF write_skips_report_id(data) THEN 1 ELSE 0
                  payload == IF skipped_report_id = 1 THEN Tail(data) ELSE data
              IN  IF write_uses_control
                    THEN /\ actual = Len(payload)
                         /\ io' = [op |-> "write", via |-> "control",
                                   request |-> HID_SET_REPORT,
                                   wValue |-> HID_OUTPUT * 256 + report_number,
                                   data |-> data, sent |-> payload,
                                   length |-> Len(payload) % 65536,
                                   actual |-> actual,
                                   ret |-> IF ok THEN Len(payload) + skipped_report_id
                                                 ELSE -1]
                    ELSE /\ actual \in 0..Len(payload)
                         /\ io' = [op |-> "write", via |-> "interrupt",
                                   request |-> output_endpoint,
                                   wValue |-> 0,
                                   data |-> data, sent |-> payload,
                                   length |-> actual,
                                   actual |-> actual,
                                   ret |-> IF ok THEN actual + skipped_report_id
                                                 ELSE -1]
    /\ UNCHANGED shutdown_thread
    /\ UNCHANGED <<transfer_loop_finished, transfer, input_reports, freed>>
    /\ UNCHANGED <<readerVars, closeVars, pipeIdle, tpc, opc>>
    /\ UNCHANGED <<busVars, openVars, sessionVars, enumVars, sideVars>>

\* Mutant of report_skips_report_id: the report requests strip the first byte
\* as hid_write does.
report_skips_report_id_as_write(data) == write_skips_report_id(data)

\* hid.c:1770, 1800 and 1830: whether a report request strips the first byte
\* of the buffer, or offsets the buffer by it.
report_skips_report_id(data) == data[1] = 0

\* hid.c:1764-1792
hid_send_feature_report(data, ok, n) ==
    /\ SessionUsable
    /\ data # <<>>
    /\ LET report_number == data[1]
           skipped_report_id == IF report_skips_report_id(data) THEN 1 ELSE 0
           payload == IF skipped_report_id = 1 THEN Tail(data) ELSE data
       IN  /\ n = Len(payload)
           /\ io' = [op |-> "send_feature_report", via |-> "control",
                     request |-> HID_SET_REPORT,
                     wValue |-> HID_FEATURE * 256 + report_number,
                     data |-> data, sent |-> payload,
                     length |-> Len(payload) % 65536,
                     actual |-> n,
                     ret |-> IF ok THEN Len(payload) + skipped_report_id ELSE -1]
    /\ UNCHANGED allButIo

\* hid.c:1794-1822
hid_get_feature_report(data, ok, n) ==
    /\ SessionUsable
    /\ data # <<>>
    /\ LET report_number == data[1]
           skipped_report_id == IF report_skips_report_id(data) THEN 1 ELSE 0
           payload == IF skipped_report_id = 1 THEN Tail(data) ELSE data
       IN  /\ n \in 0..Len(payload)
           /\ io' = [op |-> "get_feature_report", via |-> "control",
                     request |-> HID_GET_REPORT,
                     wValue |-> HID_FEATURE * 256 + report_number,
                     data |-> data, sent |-> payload,
                     length |-> Len(payload) % 65536,
                     actual |-> n,
                     ret |-> IF ok THEN n + skipped_report_id ELSE -1]
    /\ UNCHANGED allButIo

\* hid.c:1824-1852
hid_get_input_report(data, ok, n) ==
    /\ SessionUsable
    /\ data # <<>>
    /\ LET report_number == data[1]
           skipped_report_id == IF report_skips_report_id(data) THEN 1 ELSE 0
           payload == IF skipped_report_id = 1 THEN Tail(data) ELSE data
       IN  /\ n \in 0..Len(payload)
           /\ io' = [op |-> "get_input_report", via |-> "control",
                     request |-> HID_GET_REPORT,
                     wValue |-> HID_INPUT * 256 + report_number,
                     data |-> data, sent |-> payload,
                     length |-> Len(payload) % 65536,
                     actual |-> n,
                     ret |-> IF ok THEN n + skipped_report_id ELSE -1]
    /\ UNCHANGED allButIo

\* hid.c:1756-1761
hid_set_nonblocking(nonblock) ==
    /\ SessionUsable
    /\ blocking' = IF nonblock = 0 THEN 1 ELSE 0
    /\ UNCHANGED <<input_endpoint, output_endpoint, skip_output_report_id,
                   no_skip_output_report_id, no_output_reports_on_intr_ep,
                   is_driver_detached, io>>
    /\ UNCHANGED <<devVars, readerVars, closeVars, pipeIdle, tpc, opc>>
    /\ UNCHANGED <<busVars, openVars, enumVars, sideVars>>

\* ---------------------------------------------------------- specifications
ThreadProgress ==
    \/ read_thread_alloc
    \/ \E ok \in BOOLEAN : read_thread_submit(ok)
    \/ barrier_wait
    \/ read_thread_loop
    \/ read_thread_cancel
    \/ read_thread_drained
    \/ read_thread_broadcast
    \/ read_thread_exit
    \/ read_callback_append
    \/ read_callback_unlock
    \/ read_callback_check
    \/ \E ok \in BOOLEAN : read_callback_resubmit(ok)

ThreadLock ==
    \/ read_thread_bcast_lock
    \/ read_callback_lock

Dispatch(statuses, lens, max) ==
    \E status \in statuses :
        \E l \in (IF status = "COMPLETED" THEN lens ELSE {0}) :
            read_callback_entry(status, l, max)

ThreadStep(lens, max) ==
    \/ ThreadProgress
    \/ ThreadLock
    \/ Dispatch(Statuses, lens, max)
    \/ \E fatal \in BOOLEAN : read_thread_events_return(fatal)

ReaderProgress(r) ==
    \/ hid_read_timeout_check(r)
    \/ \E err \in BOOLEAN : hid_read_timeout_wait(r, err)
    \/ hid_read_timeout_return(r)

ReaderStep(r, modes, bufs) ==
    \/ \E m \in modes, b \in bufs : hid_read_timeout_entry(r, m, b)
    \/ ReaderProgress(r)
    \/ hid_read_timeout_woken(r)
    \/ cond_timedwait_timeout(r)
    \/ cond_spurious_wakeup(r)

CloseProgress ==
    \/ hid_close_cancel
    \/ hid_close_join
    \/ hid_close_free_transfer
    \/ hid_close_release
    \/ hid_close_handle
    \/ hid_close_drain
    \/ hid_close_unlock
    \/ hid_close_free

CloseStep ==
    \/ hid_close_shutdown
    \/ CloseProgress
    \/ hid_close_lock

\* ---------------------------------------------------------- hid_enumerate
allButEnumCache == <<devVars, readerVars, closeVars, pipeIdle, tpc, opc,
                     busVars, openVars, sessionVars, io, sideVars>>
allButEnum == <<allButEnumCache, cacheVars>>

EnumDev == devs[enum_i]
EnumIntf == devs[enum_i].interface[enum_j]
EnumAlt == devs[enum_i].interface[enum_j][enum_k]

\* A string that is NULL.
NullStr == <<>>

\* get_usb_string (hid.c:362-443): the string descriptor idx of the device,
\* NULL when it cannot be read or decoded.
get_usb_string(device, idx, ok) == IF ok THEN <<device.loc, idx>> ELSE NullStr

\* hid.c:468: the cache grows by 8 entries at a time
CacheChunk == 8

\* usb_string_can_cache (hid.c:506-520)
usb_string_can_cache(vid, pid) ==
    /\ ~(vid = 0 \/ pid = 0)
    /\ ~(vid = VENDOR_HORI /\ pid = PRODUCT_HORI_SHARED)

\* usb_string_cache_find (hid.c:528-535): the position of the first entry with
\* the ids, 0 when there is none.
usb_string_cache_pos(cache, vid, pid) ==
    LET S == {i \in 1..Len(cache) : cache[i].vid = vid /\ cache[i].pid = pid}
    IN  IF S = {} THEN 0 ELSE CHOOSE i \in S : \A j \in S : i <= j

\* The strings a device is asked for: the descriptor's index is above 0
\* (hid.c:544-551, 761-764).
fetched_vendor(device, ok) ==
    IF device.iManufacturer > 0 THEN get_usb_string(device, device.iManufacturer, ok)
                                ELSE NullStr
fetched_product(device, ok) ==
    IF device.iProduct > 0 THEN get_usb_string(device, device.iProduct, ok)
                           ELSE NullStr

\* Mutant of device_strings: a cache entry is found but the strings are
\* fetched from the device all the same.
device_strings_always_fetched(device, grow_ok, str_ok) ==
    LET pos == usb_string_cache_pos(usb_string_cache, device.vid, device.pid)
        cacheable == usb_string_can_cache(device.vid, device.pid)
        room == Len(usb_string_cache) < usb_string_cache_size \/ grow_ok
        entry == [vid |-> device.vid, pid |-> device.pid,
                  vendor |-> fetched_vendor(device, str_ok),
                  product |-> fetched_product(device, str_ok)]
    IN  IF cacheable /\ pos = 0 /\ room
          THEN [cache |-> Append(usb_string_cache, entry),
                size |-> IF Len(usb_string_cache) >= usb_string_cache_size
                           THEN usb_string_cache_size + CacheChunk
                           ELSE usb_string_cache_size,
                vendor |-> entry.vendor, product |-> entry.product,
                fetched |-> TRUE, nomem |-> FALSE]
          ELSE [cache |-> usb_string_cache, size |-> usb_string_cache_size,
                vendor |-> entry.vendor, product |-> entry.product,
                fetched |-> TRUE, nomem |-> cacheable /\ pos = 0]

\* create_device_info_for_device (hid.c:750-765) with usb_string_cache_find
\* (522-554), usb_string_cache_insert (494-504) and usb_string_cache_grow
\* (462-478): the manufacturer and product strings of the record, the cache
\* afterwards, whether get_usb_string was called for them and whether realloc
\* failed. An entry found serves the strings; an entry made is filled from the
\* device; a device that cannot be cached, or whose entry cannot be allocated,
\* is asked directly.
device_strings(device, grow_ok, str_ok) ==
    LET pos == usb_string_cache_pos(usb_string_cache, device.vid, device.pid)
        cacheable == usb_string_can_cache(device.vid, device.pid)
        room == Len(usb_string_cache) < usb_string_cache_size \/ grow_ok
        entry == [vid |-> device.vid, pid |-> device.pid,
                  vendor |-> fetched_vendor(device, str_ok),
                  product |-> fetched_product(device, str_ok)]
    IN  IF cacheable /\ pos > 0
          THEN [cache |-> usb_string_cache, size |-> usb_string_cache_size,
                vendor |-> usb_string_cache[pos].vendor,
                product |-> usb_string_cache[pos].product,
                fetched |-> FALSE, nomem |-> FALSE]
        ELSE IF cacheable /\ room
          THEN [cache |-> Append(usb_string_cache, entry),
                size |-> IF Len(usb_string_cache) >= usb_string_cache_size
                           THEN usb_string_cache_size + CacheChunk
                           ELSE usb_string_cache_size,
                vendor |-> entry.vendor, product |-> entry.product,
                fetched |-> TRUE, nomem |-> FALSE]
          ELSE [cache |-> usb_string_cache, size |-> usb_string_cache_size,
                vendor |-> entry.vendor, product |-> entry.product,
                fetched |-> TRUE, nomem |-> cacheable]

\* create_device_info_for_device (hid.c:721-768) once calloc has succeeded: the
\* ids, the interface numbers, the path and the manufacturer and product
\* strings; the strings are looked up only through a handle (hid.c:743-745).
create_device_info_for_device(device, h, intf_desc, vendor, product) ==
    [vendor_id |-> device.vid,
     product_id |-> device.pid,
     interface_number |-> intf_desc.num,
     interface_class |-> intf_desc.cls,
     path |-> get_path(device, intf_desc.num),
     strings |-> h # "null",
     manufacturer_string |-> vendor,
     product_string |-> product]

\* hid.c:971-975: the filters (0 matches every id) and the deny-list.
enumerate_skips(device, vendor_id, product_id) ==
    \/ (vendor_id # 0 /\ vendor_id # device.vid)
    \/ (product_id # 0 /\ product_id # device.pid)
    \/ libusb_blacklist(device.vid, device.pid)

\* hid.c:953-958: hid_init and libusb_get_device_list; either failing returns NULL.
hid_enumerate(vendor_id, product_id, init_ok, list_ok) ==
    /\ epc = "e_idle"
    /\ nenum < MaxEnums
    /\ nenum' = nenum + 1
    /\ UNCHANGED <<usb_string_cache, usb_string_cache_size, fetches, lookups,
                   cache_nomem>>
    /\ enum_vendor_id' = vendor_id
    /\ enum_product_id' = product_id
    /\ IF init_ok /\ list_ok
         THEN /\ enum_i' = 1
              /\ epc' = "e_dev"
         ELSE /\ enum_i' = 0
              /\ epc' = "e_done"
    /\ UNCHANGED <<enum_j, enum_k, enum_res, enum_handle, root, nopened, nclosed, nomem>>
    /\ UNCHANGED allButEnumCache

\* hid.c:959-987 and 1057-1061: the next device of the list; it is passed over
\* when its descriptor cannot be read, a filter or the deny-list excludes it, or
\* it has no configuration descriptor. At the end of the list root is returned.
hid_enumerate_device ==
    /\ epc = "e_dev"
    /\ IF enum_i > Len(devs)
         THEN /\ epc' = "e_done"
              /\ UNCHANGED <<enum_i, enum_j>>
         ELSE IF \/ ~EnumDev.readable
                 \/ enumerate_skips(EnumDev, enum_vendor_id, enum_product_id)
                 \/ ~EnumDev.conf
                THEN /\ enum_i' = enum_i + 1
                     /\ UNCHANGED <<epc, enum_j>>
                ELSE /\ enum_j' = 1
                     /\ epc' = "e_intf"
                     /\ UNCHANGED enum_i
    /\ UNCHANGED <<enum_vendor_id, enum_product_id, enum_k, enum_res, enum_handle,
                   root, nopened, nclosed, nomem>>
    /\ UNCHANGED allButEnum

\* hid.c:988-989 and 1054-1055: the next interface, or the end of the device.
hid_enumerate_interface ==
    /\ epc = "e_intf"
    /\ IF enum_j > Len(EnumDev.interface)
         THEN /\ enum_i' = enum_i + 1
              /\ epc' = "e_dev"
              /\ UNCHANGED enum_k
         ELSE /\ enum_k' = 1
              /\ epc' = "e_alt"
              /\ UNCHANGED enum_i
    /\ UNCHANGED <<enum_vendor_id, enum_product_id, enum_j, enum_res, enum_handle,
                   root, nopened, nclosed, nomem>>
    /\ UNCHANGED allButEnum

\* hid.c:990-993: the next alternate setting of the interface.
hid_enumerate_altsetting ==
    /\ epc = "e_alt"
    /\ IF enum_k > Len(EnumIntf)
         THEN /\ enum_j' = enum_j + 1
              /\ epc' = "e_intf"
              /\ UNCHANGED enum_k
         ELSE IF should_enumerate_interface(EnumDev.vid, EnumAlt)
                THEN /\ epc' = "e_open"
                     /\ UNCHANGED <<enum_j, enum_k>>
                ELSE /\ enum_k' = enum_k + 1
                     /\ UNCHANGED <<epc, enum_j>>
    /\ UNCHANGED <<enum_vendor_id, enum_product_id, enum_i, enum_res, enum_handle,
                   root, nopened, nclosed, nomem>>
    /\ UNCHANGED allButEnum

\* hid.c:996: res = libusb_open(dev, &handle); handle stays NULL on failure.
hid_enumerate_open(ok) ==
    /\ epc = "e_open"
    /\ enum_res' = IF ok THEN 0 ELSE -1
    /\ enum_handle' = IF ok THEN "open" ELSE enum_handle
    /\ nopened' = IF ok THEN nopened + 1 ELSE nopened
    /\ epc' = "e_info"
    /\ UNCHANGED <<enum_vendor_id, enum_product_id, enum_i, enum_j, enum_k,
                   root, nclosed, nomem>>
    /\ UNCHANGED allButEnum

\* hid.c:1011-1045: tmp = create_device_info_for_device(...), NULL when calloc
\* fails; a record is linked at the tail of the list.
hid_enumerate_info(alloc_ok, grow_ok, str_ok) ==
    /\ epc = "e_info"
    /\ IF ~alloc_ok
         THEN /\ nomem' = nomem \cup {<<enum_i, enum_j>>}
              /\ UNCHANGED <<root, usb_string_cache, usb_string_cache_size,
                             fetches, lookups, cache_nomem>>
         ELSE IF enum_handle = "null"
         THEN /\ root' = Append(root,
                           create_device_info_for_device(EnumDev, enum_handle, EnumAlt,
                                                         NullStr, NullStr))
              /\ UNCHANGED <<nomem, usb_string_cache, usb_string_cache_size,
                             fetches, lookups, cache_nomem>>
         ELSE LET got_strings == device_strings(EnumDev, grow_ok, str_ok)
              IN  /\ root' = Append(root,
                               create_device_info_for_device(EnumDev, enum_handle, EnumAlt,
                                                             got_strings.vendor,
                                                             got_strings.product))
                  /\ usb_string_cache' = got_strings.cache
                  /\ usb_string_cache_size' = got_strings.size
                  /\ lookups' = [lookups EXCEPT ![enum_i] = @ + 1]
                  /\ fetches' =
                       [x \in DOMAIN fetches |->
                          IF /\ got_strings.fetched
                             /\ x[1] = enum_i
                             /\ \/ x[2] = "vendor" /\ EnumDev.iManufacturer > 0
                                \/ x[2] = "product" /\ EnumDev.iProduct > 0
                            THEN fetches[x] + 1 ELSE fetches[x]]
                  /\ cache_nomem' = (cache_nomem \/ got_strings.nomem)
                  /\ UNCHANGED nomem
    /\ nenum' = nenum
    /\ epc' = "e_close"
    /\ UNCHANGED <<enum_vendor_id, enum_product_id, enum_i, enum_j, enum_k,
                   enum_res, enum_handle, nopened, nclosed>>
    /\ UNCHANGED allButEnumCache

\* Mutant of hid_enumerate_close: the handle is closed only when a record was made.
hid_enumerate_close_only_with_record ==
    /\ epc = "e_close"
    /\ IF enum_res >= 0 /\ <<enum_i, enum_j>> \notin nomem
         THEN /\ enum_handle' = "null"
              /\ nclosed' = nclosed + 1
         ELSE UNCHANGED <<enum_handle, nclosed>>
    /\ enum_j' = enum_j + 1
    /\ epc' = "e_intf"
    /\ UNCHANGED <<enum_vendor_id, enum_product_id, enum_i, enum_k, enum_res,
                   root, nopened, nomem>>
    /\ UNCHANGED allButEnum

\* Mutant of hid_enumerate_close: no break, the remaining alternate settings of
\* the interface are examined as well.
hid_enumerate_close_no_break ==
    /\ epc = "e_close"
    /\ IF enum_res >= 0
         THEN /\ enum_handle' = "null"
              /\ nclosed' = nclosed + 1
         ELSE UNCHANGED <<enum_handle, nclosed>>
    /\ enum_k' = enum_k + 1
    /\ epc' = "e_alt"
    /\ UNCHANGED <<enum_vendor_id, enum_product_id, enum_i, enum_j, enum_res,
                   root, nopened, nomem>>
    /\ UNCHANGED allButEnum

\* hid.c:1047-1051: if (res >= 0) { libusb_close(handle); handle = NULL; } break;
hid_enumerate_close ==
    /\ epc = "e_close"
    /\ IF enum_res >= 0
         THEN /\ enum_handle' = "null"
              /\ nclosed' = nclosed + 1
         ELSE UNCHANGED <<enum_handle, nclosed>>
    /\ enum_j' = enum_j + 1
    /\ epc' = "e_intf"
    /\ UNCHANGED <<enum_vendor_id, enum_product_id, enum_i, enum_k, enum_res,
                   root, nopened, nomem>>
    /\ UNCHANGED allButEnum

\* The session with two application readers and a closer, any interleaving.
Next ==
    \/ ThreadStep(RptLens, MaxReports)
    \/ \E r \in Readers : ReaderStep(r, Modes, BufLens)
    \/ \E r \in Readers : read_after_free(r)
    \/ CloseStep

Spec == Init /\ [][Next]_vars

\* The shutdown of the session: two readers that block (without or with a
\* deadline) on full-length reports, the read thread and a closer, under the
\* scheduling the threads library and the transport give: every thread that can
\* run does, a mutex is eventually granted, a submitted transfer eventually
\* completes, a deadline eventually passes.
ShutdownModes == {-1, 5}

NextShutdown ==
    \/ ThreadStep({MaxRptLen}, MaxShutdownReports)
    \/ \E r \in Readers : ReaderStep(r, ShutdownModes, {MaxBufLen})
    \/ \E r \in Readers : read_after_free(r)
    \/ CloseStep

FairnessShutdown ==
    /\ WF_vars(ThreadProgress)
    /\ SF_vars(ThreadLock)
    /\ SF_vars(Dispatch(Statuses, {MaxRptLen}, MaxShutdownReports))
    /\ \A r \in Readers : WF_vars(ReaderProgress(r))
    /\ \A r \in Readers : SF_vars(hid_read_timeout_woken(r))
    /\ \A r \in Readers : WF_vars(cond_timedwait_timeout(r))
    /\ WF_vars(CloseProgress)
    /\ SF_vars(hid_close_lock)

SpecShutdown == Init /\ [][NextShutdown]_vars /\ FairnessShutdown

\* A healthy session that is never closed: every submission succeeds, every
\* transfer completes or times out, and one application reader (blocking or
\* non-blocking) reads now and then: the unread backlog.
BacklogReader == "r1"
BacklogModes == {-1, 0}
BacklogStatuses == {"COMPLETED", "TIMED_OUT"}

BacklogThreadProgress ==
    \/ read_thread_alloc
    \/ read_thread_submit(TRUE)
    \/ barrier_wait
    \/ read_thread_loop
    \/ read_callback_append
    \/ read_callback_unlock
    \/ read_callback_check
    \/ read_callback_resubmit(TRUE)

NextBacklog ==
    \/ BacklogThreadProgress
    \/ read_callback_lock
    \/ Dispatch(BacklogStatuses, {MaxRptLen}, MaxBacklog)
    \/ \E m \in BacklogModes : hid_read_timeout_entry(BacklogReader, m, MaxBufLen)
    \/ ReaderProgress(BacklogReader)
    \/ hid_read_timeout_woken(BacklogReader)
    \/ cond_spurious_wakeup(BacklogReader)

FairnessBacklog ==
    /\ WF_vars(BacklogThreadProgress)
    /\ SF_vars(read_callback_lock)
    /\ SF_vars(Dispatch(BacklogStatuses, {MaxRptLen}, MaxBacklog))
    /\ WF_vars(ReaderProgress(BacklogReader))
    /\ SF_vars(hid_read_timeout_woken(BacklogReader))

SpecBacklog == Init /\ [][NextBacklog]_vars /\ FairnessBacklog

\* A healthy session whose application polls with buffers shorter than, as long
\* as and longer than the reports the device sends.
ReadReader == "r1"

NextRead ==
    \/ BacklogThreadProgress
    \/ read_callback_lock
    \/ Dispatch({"COMPLETED"}, 2..MaxReadRptLen, MaxReadReports)
    \/ \E b \in 0..MaxReadBufLen : hid_read_timeout_entry(ReadReader, 0, b)
    \/ hid_read_timeout_check(ReadReader)
    \/ hid_read_timeout_return(ReadReader)

SpecRead == Init /\ [][NextRead]_vars

\* hid_open_path on any bus of at most MaxDevs devices, for any path, with or
\* without kernel drivers bound, every transport call succeeding or failing.
PathsOf(dl) ==
    {get_path(dl[d], n) : d \in 1..Len(dl), n \in 0..1}
        \cup {<<>>, get_path_string(0, <<1>>, 1, 0)}

InitOpen ==
    /\ PipelineInitAt("t_none", "o_none", "none", "none")
    /\ devs \in DeviceLists
    /\ kactive \in BOOLEAN
    /\ detached = {}
    /\ path \in PathsOf(devs)
    /\ hpc = "p_dev"
    /\ open_d = 1 /\ open_j = 1 /\ open_k = 1
    /\ good_open = 0
    /\ oret = "none"
    /\ tried = <<>>
    /\ is_driver_detached = 0
    /\ input_endpoint = 0 /\ output_endpoint = 0
    /\ skip_output_report_id = 0 /\ no_skip_output_report_id = 0
    /\ no_output_reports_on_intr_ep = 0
    /\ blocking = 1
    /\ io = NoIo

NextOpen ==
    \/ hid_open_path_device
    \/ hid_open_path_interface
    \/ hid_open_path_altsetting
    \/ \E ok \in BOOLEAN : hid_open_path_open(ok)
    \/ \E ok \in BOOLEAN : initialize_detach(ok)
    \/ \E ok, attach_ok \in BOOLEAN : initialize_claim(ok, attach_ok)
    \/ \E busy \in SUBSET (0..MaxIntfNum) : initialize_setup(busy)
    \/ read_thread_alloc
    \/ \E ok \in BOOLEAN : read_thread_submit(ok)
    \/ barrier_wait
    \/ initialize_return
    \/ hid_open_path_close_failed
    \/ hid_open_path_return

SpecOpen == InitOpen /\ [][NextOpen]_vars

\* A session on any enumerable interface of any device, its read pipeline
\* running, the caller writing and requesting reports, every transfer
\* succeeding or failing.
InitIO ==
    /\ PipelineInit
    /\ \E usb_dev \in DevicesAt(1) :
         \E j \in 1..Len(usb_dev.interface) :
           \E k \in 1..Len(usb_dev.interface[j]) :
             /\ should_enumerate_interface(usb_dev.vid, usb_dev.interface[j][k])
             /\ OpenedInit(usb_dev, j, k)

NextIO ==
    \/ ThreadStep({MaxRptLen}, MaxIoReports)
    \/ \E data \in Buffers \cup {<<>>}, ok \in BOOLEAN, actual \in 0..MaxIoLen :
          hid_write(data, ok, actual)
    \/ \E data \in Buffers, ok \in BOOLEAN, n \in 0..MaxIoLen :
          hid_send_feature_report(data, ok, n)
    \/ \E data \in Buffers, ok \in BOOLEAN, n \in 0..MaxIoLen :
          hid_get_feature_report(data, ok, n)
    \/ \E data \in Buffers, ok \in BOOLEAN, n \in 0..MaxIoLen :
          hid_get_input_report(data, ok, n)
    \/ \E nonblock \in {0, 1} : hid_set_nonblocking(nonblock)

SpecIO == InitIO /\ [][NextIO]_vars

\* hid_enumerate over any bus of at most MaxDevs devices, with any of a few
\* filters, hid_init, the device list, every libusb_open and every calloc
\* succeeding or failing.
Storage(loc) ==
    UsbDev(loc, 1149, 5, TRUE, TRUE, TRUE,
           << <<OtherAlt(0)>>, <<OtherAlt(1), OtherAlt(1)>>, <<HidAlt(2, <<EpIn>>)>> >>)
EnumDevicesAt(loc) ==
    {PlainHid(loc), Composite(loc), Unreadable(loc), NoConfig(loc),
     RazerHuntsman(loc), Xbox360Pad(loc), NoPorts(loc), Storage(loc)}
EnumDeviceLists ==
    UNION {{f \in [1..n -> UNION {EnumDevicesAt(l) : l \in 1..n}] :
              \A i \in 1..n : f[i].loc = i} : n \in 0..MaxDevs}
EnumVendors == {0, 1149, 5426}
EnumProducts == {0, 2, 551}

InitEnum ==
    /\ PipelineInitAt("t_none", "o_none", "none", "none")
    /\ devs \in EnumDeviceLists
    /\ kactive = FALSE
    /\ detached = {}
    /\ path = <<>>
    /\ hpc = "p_none"
    /\ open_d = 1 /\ open_j = 1 /\ open_k = 1
    /\ good_open = 0
    /\ oret = "none"
    /\ tried = <<>>
    /\ is_driver_detached = 0
    /\ input_endpoint = 0 /\ output_endpoint = 0
    /\ skip_output_report_id = 0 /\ no_skip_output_report_id = 0
    /\ no_output_reports_on_intr_ep = 0
    /\ blocking = 1
    /\ io = NoIo

NextEnum ==
    \/ \E vendor_id \in EnumVendors, product_id \in EnumProducts,
          init_ok, list_ok \in BOOLEAN :
          hid_enumerate(vendor_id, product_id, init_ok, list_ok)
    \/ hid_enumerate_device
    \/ hid_enumerate_interface
    \/ hid_enumerate_altsetting
    \/ \E ok \in BOOLEAN : hid_enumerate_open(ok)
    \/ \E alloc_ok \in BOOLEAN : hid_enumerate_info(alloc_ok, TRUE, TRUE)
    \/ hid_enumerate_close

SpecEnum == InitEnum /\ [][NextEnum]_vars

\* hid_free_enumeration (hid.c:1064-1076): the caller frees the list returned
\* and is free to enumerate again; the string cache stays.
hid_free_enumeration ==
    /\ epc = "e_done"
    /\ epc' = "e_idle"
    /\ enum_vendor_id' = 0 /\ enum_product_id' = 0
    /\ enum_i' = 0 /\ enum_j' = 0 /\ enum_k' = 0
    /\ enum_res' = 0
    /\ root' = <<>>
    /\ nopened' = 0 /\ nclosed' = 0 /\ nomem' = {}
    /\ UNCHANGED enum_handle
    /\ UNCHANGED allButEnum

\* Repeated enumerations, with no hid_exit in between, of a bus of devices
\* that can and cannot be cached, two of them possibly of the same model;
\* every libusb_open, realloc and string request succeeds or fails.
Hori(loc) ==
    UsbDev(loc, VENDOR_HORI, PRODUCT_HORI_SHARED, TRUE, TRUE, TRUE,
           << <<HidAlt(0, <<EpIn>>)>> >>)
ZeroPid(loc) ==
    UsbDev(loc, 1149, 0, TRUE, TRUE, TRUE, << <<HidAlt(0, <<EpIn>>)>> >>)
ZeroVid(loc) ==
    UsbDev(loc, 0, 9, TRUE, TRUE, TRUE, << <<HidAlt(0, <<EpIn>>)>> >>)
NoProductString(loc) == [Composite(loc) EXCEPT !.iProduct = 0]
CacheDevicesAt(loc) ==
    {PlainHid(loc), NoProductString(loc), Hori(loc), ZeroPid(loc), ZeroVid(loc)}
CacheDeviceLists ==
    UNION {{f \in [1..n -> UNION {CacheDevicesAt(l) : l \in 1..n}] :
              \A i \in 1..n : f[i].loc = i} : n \in 1..MaxDevs}

InitCache ==
    /\ PipelineInitAt("t_none", "o_none", "none", "none")
    /\ devs \in CacheDeviceLists
    /\ kactive = FALSE
    /\ detached = {}
    /\ path = <<>>
    /\ hpc = "p_none"
    /\ open_d = 1 /\ open_j = 1 /\ open_k = 1
    /\ good_open = 0
    /\ oret = "none"
    /\ tried = <<>>
    /\ is_driver_detached = 0
    /\ input_endpoint = 0 /\ output_endpoint = 0
    /\ skip_output_report_id = 0 /\ no_skip_output_report_id = 0
    /\ no_output_reports_on_intr_ep = 0
    /\ blocking = 1
    /\ io = NoIo

NextCache ==
    \/ hid_enumerate(0, 0, TRUE, TRUE)
    \/ hid_enumerate_device
    \/ hid_enumerate_interface
    \/ hid_enumerate_altsetting
    \/ \E ok \in BOOLEAN : hid_enumerate_open(ok)
    \/ \E grow_ok, str_ok \in BOOLEAN : hid_enumerate_info(TRUE, grow_ok, str_ok)
    \/ hid_enumerate_close
    \/ hid_free_enumeration

SpecCache == InitCache /\ [][NextCache]_vars

\* ------------------------------------------- functions of values only
\* Nothing is enumerated, open or in flight; one function is called once.
InitPure == InitEnum /\ devs = <<>>

\* is_xbox360 (hid.c:823-869) called with a vendor id and an interface
\* descriptor of the given class, subclass and protocol.
DetectVendors == Xbox360Vendors \cup {0, 1008, 4369}
DetectClasses == {0, 3, 254, 255}
DetectSubClasses == {0, 71, 92, 93, 94}
DetectProtocols == {0, 1, 2, 128, 129, 130, 208}
call_is_xbox360(vendor_id, cls, sub, proto) ==
    /\ call = NoCall
    /\ call' = [op |-> "is_xbox360",
                arg |-> <<vendor_id, cls, sub, proto>>,
                out |-> <<IF is_xbox360(vendor_id, IntfDesc(0, cls, sub, proto, <<>>))
                            THEN 1 ELSE 0>>]
    /\ UNCHANGED <<devVars, readerVars, closeVars, pipeIdle, tpc, opc>>
    /\ UNCHANGED <<busVars, openVars, sessionVars, io, enumVars, altcalls, unlocks, first_submit>>

NextDetect ==
    \E vendor_id \in DetectVendors, cls \in DetectClasses,
       sub \in DetectSubClasses, proto \in DetectProtocols :
       call_is_xbox360(vendor_id, cls, sub, proto)

SpecDetect == InitPure /\ [][NextDetect]_vars

\* get_usage (hid.c:213-289) on a report descriptor rd. Byte c of the C
\* buffer is rd[c + 1].
\* Mutant of get_bytes: the last byte of the buffer is never read.
get_bytes_short_by_one(rd, len, num_bytes, cur) ==
    IF cur + num_bytes + 1 >= len THEN 0
    ELSE IF num_bytes = 0 THEN 0
    ELSE IF num_bytes = 1 THEN rd[cur + 2]
    ELSE IF num_bytes = 2 THEN rd[cur + 3] * 256 + rd[cur + 2]
    ELSE IF num_bytes = 4
      THEN rd[cur + 5] * 16777216 + rd[cur + 4] * 65536
           + rd[cur + 3] * 256 + rd[cur + 2]
    ELSE 0

\* Mutant of get_bytes: two bytes are read most significant byte first.
get_bytes_big_endian(rd, len, num_bytes, cur) ==
    IF cur + num_bytes >= len THEN 0
    ELSE IF num_bytes = 0 THEN 0
    ELSE IF num_bytes = 1 THEN rd[cur + 2]
    ELSE IF num_bytes = 2 THEN rd[cur + 2] * 256 + rd[cur + 3]
    ELSE IF num_bytes = 4
      THEN rd[cur + 5] * 16777216 + rd[cur + 4] * 65536
           + rd[cur + 3] * 256 + rd[cur + 2]
    ELSE 0

\* get_bytes (hid.c:185-207): the little-endian value of the num_bytes bytes
\* after byte cur, 0 when they do not all lie inside the buffer. The result
\* is a uint32_t, which four bytes never exceed; the descriptors examined keep
\* the fourth byte below 128, where the int product at hid.c:200 is defined.
get_bytes(rd, len, num_bytes, cur) ==
    IF cur + num_bytes >= len THEN 0
    ELSE IF num_bytes = 0 THEN 0
    ELSE IF num_bytes = 1 THEN rd[cur + 2]
    ELSE IF num_bytes = 2 THEN rd[cur + 3] * 256 + rd[cur + 2]
    ELSE IF num_bytes = 4
      THEN rd[cur + 5] * 16777216 + rd[cur + 4] * 65536
           + rd[cur + 3] * 256 + rd[cur + 2]
    ELSE 0

\* hid.c:222-260: the length of the data of the item whose key is byte i, and
\* the size of its key. A key with the high nibble 0xf is a long item, whose
\* next byte is the data length.
item_is_long(rd, i) == rd[i + 1] - (rd[i + 1] % 16) = 240
item_data_len(rd, size, i) ==
    IF item_is_long(rd, i)
      THEN (IF i + 1 < size THEN rd[i + 2] ELSE 0)
      ELSE (IF rd[i + 1] % 4 = 3 THEN 4 ELSE rd[i + 1] % 4)
item_key_size(rd, i) == IF item_is_long(rd, i) THEN 3 ELSE 1
\* hid.c:223: key_cmd = key & 0xfc
item_key_cmd(rd, i) == rd[i + 1] - (rd[i + 1] % 4)

\* hid.c:262-279: what the item at i stores through the unsigned short
\* pointers usage_page and usage, and the found flags; st is
\* [usage_page, usage, usage_page_found, usage_found].
get_usage_item(rd, size, i, st) ==
    LET data_len == item_data_len(rd, size, i)
        key_cmd == item_key_cmd(rd, i)
        st1 == IF key_cmd = 4
                 THEN [st EXCEPT !.usage_page = get_bytes(rd, size, data_len, i) % 65536,
                                 !.usage_page_found = 1]
                 ELSE st
    IN  IF key_cmd = 8
          THEN (IF data_len = 4
                  THEN [st1 EXCEPT !.usage_page = get_bytes(rd, size, 2, i + 2) % 65536,
                                   !.usage_page_found = 1,
                                   !.usage = get_bytes(rd, size, 2, i) % 65536,
                                   !.usage_found = 1]
                  ELSE [st1 EXCEPT !.usage = get_bytes(rd, size, data_len, i) % 65536,
                                   !.usage_found = 1])
          ELSE st1

\* hid.c:221-288: the loop from item i on. The result is the return value,
\* the two values stored and the offset of the item the parser stopped at
\* (size or more when it ran off the end).
RECURSIVE get_usage_from(_, _, _, _)
get_usage_from(rd, size, i, st) ==
    IF ~(i < size)
      THEN [ret |-> -1, usage_page |-> st.usage_page, usage |-> st.usage, at |-> i]
      ELSE LET st1 == get_usage_item(rd, size, i, st)
           IN  IF st1.usage_page_found = 1 /\ st1.usage_found = 1
                 THEN [ret |-> 0, usage_page |-> st1.usage_page,
                       usage |-> st1.usage, at |-> i]
                 ELSE get_usage_from(rd, size,
                                     i + item_data_len(rd, size, i) + item_key_size(rd, i),
                                     st1)

\* hid.c:213-219: the caller's usage_page and usage start at 0.
get_usage(report_descriptor, size) ==
    get_usage_from(report_descriptor, size, 0,
                   [usage_page |-> 0, usage |-> 0,
                    usage_page_found |-> 0, usage_found |-> 0])

\* Mutant of get_bytes_reads: the bytes are read when the last of them is the
\* byte one past the end of the buffer.
get_bytes_reads_past_end(len, num_bytes, cur) ==
    IF cur + num_bytes > len THEN {}
    ELSE IF num_bytes \in {1, 2, 4} THEN {cur + n : n \in 1..num_bytes}
    ELSE {}

\* get_bytes (hid.c:185-207): the indices of rpt it reads.
get_bytes_reads(len, num_bytes, cur) ==
    IF cur + num_bytes >= len THEN {}
    ELSE IF num_bytes \in {1, 2, 4} THEN {cur + n : n \in 1..num_bytes}
    ELSE {}

\* hid.c:222-279: the indices of report_descriptor read in the iteration at
\* offset i: the key (222), the length byte of a long item when i+1 < size
\* (232-233), and what get_bytes reads for a Usage Page (263) or a Usage
\* (269, 271, 275).
get_usage_item_reads(rd, size, i) ==
    LET data_len == item_data_len(rd, size, i)
        key_cmd == item_key_cmd(rd, i)
    IN  {i}
        \cup (IF item_is_long(rd, i) /\ i + 1 < size THEN {i + 1} ELSE {})
        \cup (IF key_cmd = 4 THEN get_bytes_reads(size, data_len, i) ELSE {})
        \cup (IF key_cmd = 8
                THEN (IF data_len = 4
                        THEN get_bytes_reads(size, 2, i + 2) \cup get_bytes_reads(size, 2, i)
                        ELSE get_bytes_reads(size, data_len, i))
                ELSE {})

\* hid.c:221-288: the loop from offset i on, as get_usage_from runs it: the
\* indices read and the offsets i of the iterations, in order.
RECURSIVE get_usage_trace(_, _, _, _)
get_usage_trace(rd, size, i, st) ==
    IF ~(i < size)
      THEN [reads |-> {}, scan |-> <<>>]
      ELSE LET st1 == get_usage_item(rd, size, i, st)
               rest == IF st1.usage_page_found = 1 /\ st1.usage_found = 1
                         THEN [reads |-> {}, scan |-> <<>>]
                         ELSE get_usage_trace(rd, size,
                                  i + item_data_len(rd, size, i) + item_key_size(rd, i),
                                  st1)
           IN  [reads |-> get_usage_item_reads(rd, size, i) \cup rest.reads,
                scan |-> <<i>> \o rest.scan]

\* Report descriptors: up to MaxItems items, cut after any byte.
MaxItems == 3
OtherItems == {<<161, 1>>, <<23, 5, 9, 5, 9>>, <<254, 2, 16, 9, 5>>}
UsagePageItems == {<<5, 1>>, <<6, 0, 255>>, <<7, 12, 0, 1, 0>>}
UsageItems == {<<9, 2>>, <<10, 1, 2>>, <<11, 6, 0, 12, 0>>}
DescItems == OtherItems \cup UsagePageItems \cup UsageItems
RECURSIVE Flatten(_)
Flatten(items) == IF items = <<>> THEN <<>> ELSE Head(items) \o Flatten(Tail(items))
WholeDescriptors(max) ==
    {Flatten(items) : items \in UNION {[1..m -> DescItems] : m \in 0..max}}
Descriptors(max) ==
    UNION {{SubSeq(d, 1, n) : n \in 0..Len(d)} : d \in WholeDescriptors(max)}

call_get_usage(report_descriptor) ==
    /\ call = NoCall
    /\ LET r == get_usage(report_descriptor, Len(report_descriptor))
           t == get_usage_trace(report_descriptor, Len(report_descriptor), 0,
                                [usage_page |-> 0, usage |-> 0,
                                 usage_page_found |-> 0, usage_found |-> 0])
       IN  call' = [op |-> "get_usage",
                    arg |-> report_descriptor,
                    out |-> <<r.ret, r.usage_page, r.usage, r.at>>,
                    reads |-> t.reads,
                    scan |-> t.scan]
    /\ UNCHANGED <<devVars, readerVars, closeVars, pipeIdle, tpc, opc>>
    /\ UNCHANGED <<busVars, openVars, sessionVars, io, enumVars, altcalls, unlocks, first_submit>>

\* fill_device_info_usage (hid.c:660-674): page and usage start at 0;
\* get_usage runs on the res bytes hid_get_report_descriptor_libusb has read
\* when its result read_res >= 0, and its return value is not looked at; page and usage are
\* then stored in the device record. The result is the value get_usage
\* returned (-1 also when it was not called) and the two values stored.
fill_device_info_usage(report_descriptor, read_res) ==
    IF read_res >= 0
      THEN LET r == get_usage(report_descriptor, read_res)
           IN  <<r.ret, r.usage_page, r.usage>>
      ELSE <<-1, 0, 0>>

\* fill_device_info_usage when the control transfer has read the whole of
\* report_descriptor (ok) or has failed.
call_fill_device_info_usage(report_descriptor, ok) ==
    /\ call = NoCall
    /\ call' = [op |-> "fill_device_info_usage",
                arg |-> report_descriptor,
                out |-> fill_device_info_usage(report_descriptor,
                                               IF ok THEN Len(report_descriptor) ELSE -1)]
    /\ UNCHANGED <<devVars, readerVars, closeVars, pipeIdle, tpc, opc>>
    /\ UNCHANGED <<busVars, openVars, sessionVars, io, enumVars, altcalls, unlocks, first_submit>>

NextUsage ==
    /\ call = NoCall
    /\ \E report_descriptor \in Descriptors(MaxItems) :
          \/ call_get_usage(report_descriptor)
          \/ \E ok \in BOOLEAN : call_fill_device_info_usage(report_descriptor, ok)

SpecUsage == InitPure /\ [][NextUsage]_vars

\* get_path (hid.c:560-584) called for two interfaces of a device.
PathBuses == {0, 1, 12, 255}
PathPorts ==
    {<<>>, <<1>>, <<12>>, <<1, 2>>, <<2, 1>>, <<1, 21>>,
     <<255, 255, 255, 255, 255, 255, 255>>, <<1, 2, 3, 4, 5, 6, 7, 8>>}
PathConfigs == {0, 1, 255}
PathInterfaces == {0, 1, 10, 11, 255}
call_get_path(bus_number, port_numbers, config_number, interface_number, other) ==
    /\ call = NoCall
    /\ call' = [op |-> "get_path",
                arg |-> <<bus_number, port_numbers, config_number, interface_number, other>>,
                out |-> <<get_path_string(bus_number, port_numbers, config_number,
                                          interface_number),
                          get_path_string(bus_number, port_numbers, config_number, other)>>]
    /\ UNCHANGED <<devVars, readerVars, closeVars, pipeIdle, tpc, opc>>
    /\ UNCHANGED <<busVars, openVars, sessionVars, io, enumVars, altcalls, unlocks, first_submit>>

NextPath ==
    \E bus_number \in PathBuses, port_numbers \in PathPorts,
       config_number \in PathConfigs, interface_number, other \in PathInterfaces :
       call_get_path(bus_number, port_numbers, config_number, interface_number, other)

SpecPath == InitPure /\ [][NextPath]_vars

\* ------------------------------------------------------------------ claims
\* The ids of the queued reports, head first.
QueueIds == [i \in 1..Len(input_reports) |-> input_reports[i].id]

\* C1 (as claimed): whenever the session mutex is not held, the inbound queue
\* holds at most 30 reports.
C1_QueueAtMost30 == mutex = FREE => Len(input_reports) <= 30

\* C2 (as claimed): once 31 transfers have completed and been appended with no
\* read in between, exactly reports #2..#31 are queued, in arrival order.
C2_ThirtyOneLeaveThirty ==
    (nsent = 31 /\ rpt = NoRpt /\ lastGot = 0 /\ mutex = FREE)
        => QueueIds = [i \in 1..30 |-> i + 1]

C3_ReadsInArrivalOrder ==
    [][\A r \in Readers :
          (got[r] = 0 /\ got'[r] # 0)
            => /\ input_reports # <<>>
               /\ got'[r] = Head(input_reports).id
               /\ input_reports' = Tail(input_reports)
               /\ got'[r] > lastGot]_vars

\* C3 witness: a reader that had blocked returns report #2.
C3_Witness ==
    \E r \in Readers : rpc[r] = "r_ret" /\ got[r] = 2 /\ waited[r]

\* C4: a read about to return -1 without a wait error holds the mutex with the
\* shutdown flag set and the queue empty; so while reports remain queued after
\* a disconnection, reads return them and not -1.
C4_MinusOneOnlyWhenShutdownAndEmpty ==
    \A r \in Readers :
        (rpc[r] = "r_ret" /\ ret[r] = -1 /\ res[r] # WAIT_ERROR)
            => (shutdown_thread = 1 /\ input_reports = <<>> /\ got[r] = 0)

\* C4 witness: after the flag was set a report was still returned, and a later
\* read returns -1 on the exhausted queue.
C4_Witness ==
    \E r \in Readers :
        /\ rpc[r] = "r_ret" /\ ret[r] = -1 /\ res[r] # WAIT_ERROR
        /\ lastGot > 0 /\ lastGot = nsent

\* C7 (as claimed): a timed read that returns 0 leaves under an empty queue.
C7_ZeroOnlyOnEmptyQueue ==
    \A r \in Readers :
        (rpc[r] = "r_ret" /\ ms[r] > 0 /\ ret[r] = 0) => input_reports = <<>>

\* C7 (amended): a timed read returns 0 without having consumed a report only
\* when its timed wait reported the expiry of the deadline, after the reader
\* had found the queue empty under the mutex; the queue is not checked again, so
\* a report enqueued between the expiry and the re-locking stays queued.
C7_ZeroOnlyAfterTimeout ==
    \A r \in Readers :
        (rpc[r] = "r_ret" /\ ms[r] > 0 /\ ret[r] = 0 /\ got[r] = 0)
            => (res[r] = WAIT_TIMED_OUT /\ waited[r])

\* C7 witness: the timed wait expired, a report was enqueued before the reader
\* locked the mutex again, and the read returns 0.
C7_Witness ==
    \E r \in Readers :
        /\ rpc[r] = "r_ret" /\ ms[r] > 0 /\ ret[r] = 0 /\ got[r] = 0
        /\ res[r] = WAIT_TIMED_OUT
        /\ input_reports # <<>>

\* C8: a non-blocking read never waits on the condition; one that found the
\* queue empty and reads the flag clear returns 0; and no step of a read that
\* found the queue empty changes the queue or the flag.
C8_NonBlockingReturnsZero ==
    /\ [](\A r \in Readers :
            (rpc[r] # "r_idle" /\ ms[r] = 0)
              => (rpc[r] \in {"r_chks", "r_ret", "r_ub"} /\ ~waited[r]))
    /\ [][\A r \in Readers :
            (rpc[r] = "r_chks" /\ ms[r] = 0 /\ rpc'[r] \notin {"r_chks", "r_ub"})
              => /\ rpc'[r] = "r_ret"
                 /\ shutdown_thread = 0 => ret'[r] = 0
                 /\ input_reports' = input_reports
                 /\ shutdown_thread' = shutdown_thread]_vars
    /\ [][\A r \in Readers :
            (rpc[r] = "r_ret" /\ ms[r] = 0 /\ got[r] = 0 /\ rpc'[r] = "r_idle")
              => /\ input_reports' = input_reports
                 /\ shutdown_thread' = shutdown_thread]_vars

\* C8 witness: a non-blocking read on the empty queue of a running session is
\* about to return 0.
C8_Witness ==
    \E r \in Readers :
        /\ rpc[r] = "r_ret" /\ ms[r] = 0 /\ ret[r] = 0 /\ got[r] = 0
        /\ shutdown_thread = 0 /\ input_reports = <<>> /\ ~waited[r]

\* C9: the transfer and its buffer are freed, the interface released, the handle
\* closed, the queue drained and the session freed only once the read thread
\* has returned (so neither the thread nor a callback it runs is still active).
C9_FreedOnlyAfterJoin ==
    (\/ transfer = "freed"
     \/ iface = "released"
     \/ handle = "closed"
     \/ cpc \in {"c_free_transfer", "c_release", "c_close_handle", "c_lock",
                 "c_drain", "c_unlock", "c_free", "c_done"}
     \/ ~dev_alive)
        => (tpc = "t_done" /\ cbret = "none" /\ transfer_loop_finished = 1)

\* C9 witness: close has freed the session of a thread that had run callbacks.
C9_Witness == ~dev_alive /\ transfer = "freed" /\ tpc = "t_done" /\ nsent > 0

C10_CloseTerminates ==
    /\ (cpc # "c_idle") ~> (transfer_loop_finished = 1 /\ tpc = "t_done")
    /\ (cpc # "c_idle") ~> (cpc = "c_done")
    /\ [](tpc = "t_done" => transfer_loop_finished = 1)

\* C10 witness: close has run to its end on a session whose read thread had
\* submitted transfers and has returned.
C10_Witness == cpc = "c_done" /\ tpc = "t_done" /\ nsent > 0

\* C11: hidapi_initialize_device has passed the barrier (open returns the
\* session) only once the read thread has allocated the transfer and made its
\* first submission attempt, which either put the transfer in flight or marked
\* the pipeline stopped; so every step of a close finds dev->transfer allocated.
C11_OpenReturnsAfterFirstSubmit ==
    /\ opc = "o_done"
         => /\ transfer # "null"
            /\ tpc \notin {"t_alloc", "t_submit", "t_barrier"}
    /\ (opc = "o_done" /\ nsent = 0 /\ tpc = "t_loop" /\ cpc = "c_idle"
          /\ shutdown_thread = 0)
         => xfer = "inflight"
    /\ cpc \in {"c_cancel", "c_join"} => transfer = "alloc"

\* C11 witness: close calls libusb_cancel_transfer right after open has
\* returned, the read thread not having run since the barrier.
C11_Witness ==
    /\ opc = "o_done" /\ cpc = "c_cancel" /\ tpc = "t_loop"
    /\ transfer = "alloc" /\ nsent = 0

\* How the last candidate hid_open_path opened has ended, "" when none was.
LastEnd == IF tried = <<>> THEN "" ELSE tried[Len(tried)].end
LastTried == tried[Len(tried)]
\* hid_open_path is between two candidates, or has returned.
BetweenCandidates == hpc \in {"p_dev", "p_intf", "p_alt", "p_end", "p_ret"}
\* The last candidate has been given up and no other has been opened since.
GivenUp == hpc = "p_fail" \/ BetweenCandidates
\* The <<d, j, k>> hid_open_path compares equal to its argument.
Matches ==
    {c \in {<<d, j, k>> : d \in 1..MaxDevs + 1, j \in 1..2, k \in 1..2} :
        /\ c[1] <= Len(devs)
        /\ devs[c[1]].readable /\ devs[c[1]].conf
        /\ c[2] <= Len(devs[c[1]].interface)
        /\ c[3] <= Len(devs[c[1]].interface[c[2]])
        /\ should_enumerate_interface(devs[c[1]].vid, devs[c[1]].interface[c[2]][c[3]])
        /\ get_path(devs[c[1]], devs[c[1]].interface[c[2]][c[3]].num) = path}
\* Interface <<d1, j1>> comes before <<d2, j2>> in device-list then interface order.
Before(d1, j1, d2, j2) == d1 < d2 \/ (d1 = d2 /\ j1 < j2)

\* C12: when libusb_claim_interface fails, the candidate is given up with no
\* read thread started and no interface claimed, libusb_attach_kernel_driver has
\* been called exactly when this open had detached the driver, and the handle
\* is closed; and hid_open_path returns NULL when no candidate was opened.
C12_ClaimFailureAborts ==
    /\ (LastEnd = "claim_failed" /\ GivenUp)
         => /\ LastTried.attach_called = LastTried.was_detached
            /\ tpc = "t_none" /\ iface = "none"
            /\ BetweenCandidates => handle = "closed"
    /\ (hpc = "p_ret" /\ LastEnd # "opened")
         => (oret = "null" /\ tpc = "t_none" /\ iface = "none" /\ handle # "open")

\* C12 witness: the claim failed after this open had detached the kernel driver,
\* no other candidate followed, and hid_open_path has returned NULL.
C12_Witness ==
    /\ hpc = "p_ret" /\ oret = "null"
    /\ LastEnd = "claim_failed" /\ LastTried.was_detached /\ LastTried.attach_called
    /\ handle = "closed"

\* C13 (as claimed): whatever libusb_detach_kernel_driver returns,
\* hidapi_initialize_device goes on to claim the interface.
C13_DetachFailureDoesNotBlock ==
    [][(hpc = "p_detach" /\ hpc' # "p_detach") => hpc' = "p_claim"]_vars

\* C13 (amended): hidapi_initialize_device goes on to claim the interface only
\* when no kernel driver was active or the detach succeeded; a failed detach
\* gives the candidate up: nothing is claimed, no thread is started, the handle
\* is closed, and hid_open_path returns NULL unless a later candidate is opened.
C13_DetachFailureAborts ==
    /\ [][(hpc = "p_detach" /\ hpc' = "p_claim")
            => (is_driver_detached' = 1 \/ ~kactive \/ CurKey \in detached)]_vars
    /\ []((LastEnd = "detach_failed" /\ GivenUp)
            => /\ is_driver_detached = 0
               /\ tpc = "t_none" /\ iface = "none"
               /\ BetweenCandidates => handle = "closed"
               /\ hpc = "p_ret" => oret = "null")

\* C13 witness: the detach failed and hid_open_path has returned NULL.
C13_Witness ==
    hpc = "p_ret" /\ oret = "null" /\ LastEnd = "detach_failed" /\ handle = "closed"

\* C14: a session hid_open_path returns is open on a candidate that passes
\* should_enumerate_interface and has exactly the given path, every matching
\* interface before it in device-list then interface order having been tried
\* and given up; and when nothing on the bus matches, it returns NULL having
\* opened no handle, claimed no interface, detached no driver and started no
\* thread.
C14_OpensFirstMatch ==
    hpc = "p_ret" =>
        /\ oret = "dev"
             => /\ LastEnd = "opened"
                /\ LastTried.cand \in Matches
                /\ \A c \in Matches :
                      Before(c[1], c[2], LastTried.cand[1], LastTried.cand[2])
                        => \E i \in 1..Len(tried) :
                              /\ tried[i].cand[1] = c[1] /\ tried[i].cand[2] = c[2]
                              /\ tried[i].end # "opened"
                /\ handle = "open" /\ iface = "claimed" /\ opc = "o_done"
        /\ Matches = {}
             => /\ oret = "null" /\ tried = <<>>
                /\ handle = "none" /\ iface = "none" /\ detached = {}
                /\ tpc = "t_none"

\* C14 witness: the session returned is open on the second device, whose path
\* was asked for, the first device having another path.
C14_Witness ==
    /\ hpc = "p_ret" /\ oret = "dev"
    /\ LastTried.cand[1] = 2
    /\ Len(tried) = 1

\* The interface descriptor the session is open on, and its device.
SessionDev == devs[open_d]
SessionAlt == devs[open_d].interface[open_j][open_k]
HasInterruptOut ==
    \E i \in 1..Len(SessionAlt.endpoint) :
        SessionAlt.endpoint[i].interrupt /\ SessionAlt.endpoint[i].addr < LIBUSB_ENDPOINT_IN
IsSonyController ==
    /\ SessionDev.vid = VENDOR_SONY
    /\ SessionDev.pid \in {PRODUCT_PS3_CONTROLLER, PRODUCT_NAVIGATION_CONTROLLER}
\* hid_write has handed a buffer to the transport.
Wrote == io.op = "write" /\ io.via # "none"

\* C15: hid_write transmits the buffer without its first byte exactly when
\* skip_output_report_id is set, or the first byte is 0 and
\* no_skip_output_report_id is clear, and otherwise transmits it whole; with no
\* quirk set a leading 0 is stripped; and a successful write whose payload was
\* accepted whole returns the length of the caller's buffer.
C15_WriteStripsReportId ==
    Wrote =>
        /\ io.sent = Tail(io.data)
             <=> (skip_output_report_id = 1
                    \/ (io.data[1] = 0 /\ no_skip_output_report_id = 0))
        /\ io.sent # Tail(io.data) => io.sent = io.data
        /\ (io.data[1] = 0 /\ skip_output_report_id = 0
              /\ no_skip_output_report_id = 0 /\ no_output_reports_on_intr_ep = 0)
             => io.sent = Tail(io.data)
        /\ (io.ret >= 0 /\ io.length = Len(io.sent)) => io.ret = Len(io.data)

\* C15 witness: on a session without quirks the buffer <<0, 7>> went out as
\* <<7>> on the interrupt endpoint and hid_write returned 2.
C15_Witness ==
    /\ Wrote /\ io.via = "interrupt"
    /\ skip_output_report_id = 0 /\ no_skip_output_report_id = 0
    /\ no_output_reports_on_intr_ep = 0
    /\ io.data = <<0, 7>> /\ io.sent = <<7>> /\ io.ret = 2

\* C16: hid_write uses a Set_Report control transfer of report type Output,
\* carrying the report number, exactly when the interface has no interrupt OUT
\* endpoint or no_output_reports_on_intr_ep is set, and otherwise the first
\* interrupt OUT endpoint of the interface; a Sony PS3 or navigation controller
\* is always written to by control transfer.
C16_WriteChoosesPipe ==
    Wrote =>
        /\ io.via = "control"
             <=> (~HasInterruptOut \/ no_output_reports_on_intr_ep = 1)
        /\ io.via = "control"
             => /\ io.request = 9
                /\ io.wValue \div 256 = 2
                /\ io.wValue % 256 = io.data[1]
        /\ io.via = "interrupt"
             => /\ io.request = find_endpoint(SessionAlt, FALSE)
                /\ io.request # 0
        /\ IsSonyController => io.via = "control"

\* C16 witness: a Sony controller whose interface has an interrupt OUT endpoint
\* was written to by control transfer.
C16_Witness ==
    /\ Wrote /\ io.via = "control" /\ io.ret > 0
    /\ IsSonyController /\ HasInterruptOut /\ output_endpoint # 0

\* C17: a step in which hid_write or a report request returns -1 changes
\* nothing of the session: the queue, the flags, the transfer, the quirks, the
\* endpoints, the blocking mode, the interface and the handle are as before.
C17_FailedTransferChangesNothing ==
    [][(io' # io /\ io'.ret = -1) => UNCHANGED allButIo]_vars

\* C17 witness: a report request has failed on a running session that holds a
\* queued report.
C17_Witness ==
    /\ io.op = "get_input_report" /\ io.ret = -1
    /\ input_reports # <<>> /\ shutdown_thread = 0

\* C18: the step in which a read takes a report returns the smaller of the
\* buffer length and the report length and leaves exactly that many leading
\* bytes of the head report in the caller's buffer; the report is unlinked
\* whole, and no later read returns it again: what a read holds is always the
\* leading bytes of one report, never the excess of an earlier one.
C18_ReadTruncates ==
    [][\A r \in Readers :
          (got[r] = 0 /\ got'[r] # 0)
            => LET h == Head(input_reports)
                   n == IF blen'[r] < h.len THEN blen'[r] ELSE h.len
               IN /\ ret'[r] = n
                  /\ Len(rdata'[r]) = n
                  /\ \A i \in 1..n : rdata'[r][i] = h.data[i]
                  /\ input_reports' = Tail(input_reports)
                  /\ \A i \in 1..Len(input_reports') : input_reports'[i].id # h.id
                  /\ got'[r] = h.id
                  /\ got'[r] > lastGot]_vars

\* C18 witness: report 1, at least two bytes long, was read into a one-byte
\* buffer: one byte came back, and report 2 is now at the head of the queue.
C18_Witness ==
    /\ rpc[ReadReader] = "r_ret" /\ got[ReadReader] = 1
    /\ blen[ReadReader] = 1 /\ ret[ReadReader] = 1
    /\ rdata[ReadReader] = <<17>>
    /\ input_reports # <<>> /\ Head(input_reports).id = 2

\* hid_enumerate has returned its list.
EnumReturned == epc = "e_done"

\* The (device, interface) pairs a call with these filters is to report.
Reported(i, j) ==
    /\ devs[i].readable
    /\ enum_vendor_id \in {0, devs[i].vid}
    /\ enum_product_id \in {0, devs[i].pid}
    /\ ~libusb_blacklist(devs[i].vid, devs[i].pid)
    /\ \E k \in 1..Len(devs[i].interface[j]) :
          should_enumerate_interface(devs[i].vid, devs[i].interface[j][k])

\* What identifies a record: the ids, the interface number and the path.
RecordKey(vid, pid, num, p) ==
    [vendor_id |-> vid, product_id |-> pid, interface_number |-> num, path |-> p]
RootKeys ==
    [n \in 1..Len(root) |->
        RecordKey(root[n].vendor_id, root[n].product_id,
                  root[n].interface_number, root[n].path)]

\* The records of the reported pairs from (i, j) on, in device-list order then
\* interface order, leaving out the pairs in skip.
RECURSIVE ReportedFrom(_, _, _)
ReportedFrom(i, j, skip) ==
    IF i > Len(devs) THEN <<>>
    ELSE IF j > Len(devs[i].interface) THEN ReportedFrom(i + 1, 1, skip)
    ELSE (IF Reported(i, j) /\ <<i, j>> \notin skip
            THEN <<RecordKey(devs[i].vid, devs[i].pid, devs[i].interface[j][1].num,
                             get_path(devs[i], devs[i].interface[j][1].num))>>
            ELSE <<>>)
         \o ReportedFrom(i, j + 1, skip)

C20_EnumerateHoldsNothingOpen ==
    /\ [](/\ EnumReturned => (nopened = nclosed /\ enum_handle = "null")
          /\ enum_handle = "open" => epc \in {"e_info", "e_close"}
          /\ nopened - nclosed = (IF enum_handle = "open" THEN 1 ELSE 0))
    /\ [][(epc = "e_info" /\ epc' = "e_close" /\ enum_res < 0
             /\ <<enum_i, enum_j>> \notin nomem')
            => /\ Len(root') = Len(root) + 1
               /\ SubSeq(root', 1, Len(root)) = root
               /\ root'[Len(root')].strings = FALSE
               /\ root'[Len(root')].vendor_id = EnumDev.vid
               /\ root'[Len(root')].product_id = EnumDev.pid
               /\ root'[Len(root')].interface_number = EnumAlt.num]_vars

\* C20 witness: hid_enumerate has returned after one libusb_open failed, whose
\* interface has a record without strings, and one record could not be
\* allocated, whose handle was opened and closed.
C20_Witness ==
    /\ EnumReturned
    /\ nopened = 1 /\ nclosed = 1
    /\ nomem # {}
    /\ Len(root) = 1 /\ ~root[1].strings

\* The callback's append step has evicted: the queue did not grow by one.
Evicts ==
    /\ tpc = "cb_append" /\ tpc' = "cb_unlock"
    /\ input_reports # <<>>
    /\ Len(input_reports') # Len(input_reports) + 1

\* C26: when the append step of the callback evicts, the report removed is the
\* head of the queue, the report just appended is the new tail, the others
\* keep their order, and the callback holds the mutex before and after the step.
C26_EvictsOldest ==
    [][Evicts => /\ input_reports' = Append(Tail(input_reports), rpt)
                 /\ input_reports'[Len(input_reports')] = rpt
                 /\ \A n \in 1..Len(input_reports') - 1 :
                       input_reports'[n].id < input_reports'[n + 1].id
                 /\ mutex = BG /\ mutex' = BG]_vars

\* C26 witness: with nothing read so far, report 1 has been evicted and the
\* report just appended is the tail.
C26_Witness ==
    /\ tpc = "cb_unlock" /\ lastGot = 0 /\ mutex = BG
    /\ input_reports # <<>>
    /\ Head(input_reports).id = 2
    /\ input_reports[Len(input_reports)].id = nsent

\* The callback has seen the flag set by its own status test (hid.c:1154-1159)
\* and is at, or past, the test that ends the transfer loop.
ReadingOver ==
    \/ tpc = "cb_check" /\ shutdown_thread = 1
    \/ transfer_loop_finished = 1

\* C29: the step in which the callback is run with a cancelled or no-device
\* status sets the flag; and from the callback's test of a set flag on, the
\* flag stays set, the transfer is never in flight again, no transfer
\* completes and the queue never grows.
C29_CancelledEndsReading ==
    [][/\ (tpc \in {"t_events", "t_drain"} /\ tpc' = "cb_check" /\ nsent' = nsent
             /\ (xfer = "cancelling" \/ shutdown_thread' # shutdown_thread))
          => shutdown_thread' = 1
       /\ ReadingOver
          => /\ ReadingOver'
             /\ shutdown_thread' = 1
             /\ xfer' # "inflight"
             /\ nsent' = nsent
             /\ Len(input_reports') <= Len(input_reports)]_vars

\* C29 witness: with no close under way, the callback run from the event loop
\* has been given a no-device status while reports are queued.
C29_Witness ==
    /\ tpc = "cb_check" /\ cbret = "t_events"
    /\ shutdown_thread = 1 /\ transfer_loop_finished = 0
    /\ cpc = "c_idle" /\ xfer = "idle"
    /\ input_reports # <<>>

\* The thread taking a step holds the mutex: the read thread or its callback,
\* hid_close, or a reader (which may take the mutex in the step itself).
StepperHoldsMutex ==
    /\ tpc' # tpc => mutex = BG
    /\ cpc' # cpc => mutex = APP
    /\ \A r \in Readers : rpc'[r] # rpc[r] => (mutex = r \/ mutex' = r)

\* C28: every step that writes shutdown_thread or the queue, and every step of
\* the read thread or the callback that tests shutdown_thread, is taken by a
\* thread that holds the mutex.
C28_SharedStateUnderMutex ==
    [][/\ shutdown_thread' # shutdown_thread => StepperHoldsMutex
       /\ input_reports' # input_reports => StepperHoldsMutex
       /\ (tpc \in {"t_loop", "cb_check"} /\ tpc' # tpc) => mutex = BG]_vars

\* ------------------------------------------------ Xbox One initialisation
\* Xbox One controllers: interface 0 is the controller's, with or without a
\* high speed alternate setting 1; the other interfaces carry the same class
\* triple (audio and accessory interfaces) or another one.
Xb1Alt(num, eps) ==
    IntfDesc(num, LIBUSB_CLASS_VENDOR_SPEC, xb1_iface_subclass, xb1_iface_protocol, eps)
XboxOnePad(loc, vid) ==
    UsbDev(loc, vid, 765, TRUE, TRUE, TRUE,
           << <<Xb1Alt(0, <<EpIn, EpOut>>), Xb1Alt(0, <<EpIn, EpOut>>)>>,
              <<Xb1Alt(1, <<>>), Xb1Alt(1, <<EpIn>>)>>,
              <<OtherAlt(2)>> >>)
XboxOneWired(loc, vid) ==
    UsbDev(loc, vid, 721, TRUE, TRUE, TRUE,
           << <<Xb1Alt(0, <<EpIn, EpOut>>)>>,
              <<Xb1Alt(1, <<>>)>>,
              <<Xb1Alt(2, <<>>), Xb1Alt(2, <<EpIn>>)>> >>)
XboxDevicesAt(loc) ==
    {XboxOnePad(loc, vendor_microsoft), XboxOnePad(loc, 3695),
     XboxOneWired(loc, vendor_microsoft), XboxOneWired(loc, 3695),
     Xbox360Pad(loc)}

\* hid_open_path on the controller interface of one device, the session then
\* read, written to and closed; every libusb call succeeds or fails.
InitXbox ==
    /\ PipelineInitAt("t_none", "o_none", "none", "none")
    /\ \E usb_dev \in XboxDevicesAt(1) :
         /\ devs = <<usb_dev>>
         /\ path = get_path(usb_dev, 0)
    /\ kactive \in BOOLEAN
    /\ detached = {}
    /\ hpc = "p_dev"
    /\ open_d = 1 /\ open_j = 1 /\ open_k = 1
    /\ good_open = 0
    /\ oret = "none"
    /\ tried = <<>>
    /\ is_driver_detached = 0
    /\ input_endpoint = 0 /\ output_endpoint = 0
    /\ skip_output_report_id = 0 /\ no_skip_output_report_id = 0
    /\ no_output_reports_on_intr_ep = 0
    /\ blocking = 1
    /\ io = NoIo

\* The caller has the session once hid_open_path has returned it.
Returned == hpc = "p_ret" /\ oret = "dev"

NextXbox ==
    \/ NextOpen
    \/ ThreadStep({MaxRptLen}, MaxIoReports)
    \/ Returned /\ \E ok \in BOOLEAN : hid_write(<<0, 1>>, ok, 1)
    \/ Returned /\ \E ok \in BOOLEAN : hid_send_feature_report(<<1>>, ok, 1)
    \/ Returned /\ hid_read_timeout_entry(ReadReader, 0, MaxBufLen)
    \/ hid_read_timeout_check(ReadReader)
    \/ hid_read_timeout_return(ReadReader)
    \/ Returned /\ hid_close_shutdown
    \/ CloseProgress
    \/ hid_close_lock

SpecXbox == InitXbox /\ [][NextXbox]_vars

\* The session hid_open_path returned is open: hid_close has not yet come to
\* release its interface (hid.c:1871-1872).
SessionHeld ==
    /\ Returned
    /\ cpc \in {"c_idle", "c_cancel", "c_join", "c_free_transfer", "c_release"}

\* C27: from the successful return of hid_open_path until hid_close releases
\* it, the interface of the session stays claimed: neither the Xbox
\* initialisation after the claim nor a read, write or feature operation
\* releases it.
C27_InterfaceStaysClaimed == SessionHeld => iface = "claimed"

\* The entries init_xboxone adds to altcalls in the step being taken.
NewAltCalls == SubSeq(altcalls', Len(altcalls) + 1, Len(altcalls'))

\* hidapi_initialize_device runs the Xbox One initialisation in this step.
XboxOneInitStep ==
    /\ hpc = "p_setup" /\ hpc' = "p_barrier"
    /\ is_xboxone(CurDev.vid, CurAlt)

\* The interfaces other than interface 0 whose alternate setting 0 carries the
\* Xbox One class triple.
OtherMatching ==
    {j \in 1..Len(CurDev.interface) :
        /\ CurDev.interface[j][1].num # 0
        /\ CurDev.interface[j][1].cls = LIBUSB_CLASS_VENDOR_SPEC
        /\ CurDev.interface[j][1].sub = xb1_iface_subclass
        /\ CurDev.interface[j][1].proto = xb1_iface_protocol}

\* Interface 0 is set to alternate setting 1 only, and only for a Microsoft device.
Interface0OnlyMicrosoft ==
    \A n \in 1..Len(NewAltCalls) :
       NewAltCalls[n][1] = 0 =>
          NewAltCalls[n][2] = 1 /\ CurDev.vid = vendor_microsoft

\* C30 as stated: in the Xbox One initialisation interface 0 is switched to
\* alternate setting 1 only when the vendor is Microsoft, and every other
\* matching interface that has an alternate setting 0 is switched to alternate
\* setting 1.
C30_OthersSwitchedToAlt1 ==
    [][XboxOneInitStep =>
         /\ Interface0OnlyMicrosoft
         /\ \A j \in OtherMatching :
               \E n \in 1..Len(NewAltCalls) :
                  NewAltCalls[n] = <<CurDev.interface[j][1].num, 1, TRUE>>]_vars

\* C30 amended: in the Xbox One initialisation interface 0 is switched to
\* alternate setting 1 only when the vendor is Microsoft; for every other
\* matching interface that has an alternate setting 0 the initialisation
\* claims the interface and, when the claim succeeds, sets it to alternate
\* setting 0; no interface other than 0 is set to another alternate setting.
C30_OthersResetToAlt0 ==
    [][XboxOneInitStep =>
         /\ Interface0OnlyMicrosoft
         /\ \A j \in OtherMatching :
               \E n \in 1..Len(NewAltCalls) :
                  /\ NewAltCalls[n][1] = CurDev.interface[j][1].num
                  /\ NewAltCalls[n][2] = 0
         /\ \A n \in 1..Len(NewAltCalls) :
               NewAltCalls[n][1] # 0 => NewAltCalls[n][2] = 0]_vars

\* A Microsoft controller has been initialised: interface 0 was set to its
\* alternate setting 1 and interface 1 to its alternate setting 0.
C30_Witness ==
    /\ hpc = "p_barrier"
    /\ CurDev.vid = vendor_microsoft
    /\ altcalls = << <<0, 1, TRUE>>, <<1, 0, TRUE>> >>

\* The devices whose manufacturer and product strings may be cached.
Cacheable(l) == devs[l].vid # 0 /\ devs[l].pid # 0
                /\ ~(devs[l].vid = 3853 /\ devs[l].pid = 220)

\* The number of get_usb_string calls a lookup makes when it asks the device:
\* one for each string the device descriptor has an index for.
Asked(l, kind) ==
    IF kind = "vendor" THEN devs[l].iManufacturer > 0 ELSE devs[l].iProduct > 0

\* A device that cannot be cached has no cache entry and has been asked for
\* its strings at every lookup.
UncacheableAlwaysFetched ==
    \A l \in 1..Len(devs) :
       ~Cacheable(l) =>
          /\ usb_string_cache_pos(usb_string_cache, devs[l].vid, devs[l].pid) = 0
          /\ \A kind \in {"vendor", "product"} :
                fetches[<<l, kind>>] = IF Asked(l, kind) THEN lookups[l] ELSE 0

C21_HitServedFromCache ==
    [][(/\ epc = "e_info" /\ lookups' # lookups
        /\ Cacheable(enum_i)
        /\ usb_string_cache_pos(usb_string_cache, EnumDev.vid, EnumDev.pid) > 0)
       => /\ fetches' = fetches
          /\ usb_string_cache' = usb_string_cache
          /\ LET e == usb_string_cache[usb_string_cache_pos(usb_string_cache,
                                                            EnumDev.vid, EnumDev.pid)]
             IN  /\ root'[Len(root')].manufacturer_string = e.vendor
                 /\ root'[Len(root')].product_string = e.product]_vars

C22_Xbox360Detection ==
    /\ Cardinality(Xbox360Vendors) = 26
    /\ call.op = "is_xbox360" =>
          /\ call.out = <<1>> <=>
                /\ call.arg[2] = 255
                /\ call.arg[3] = 93
                /\ call.arg[4] \in {1, 129}
                /\ call.arg[1] \in Xbox360Vendors
          /\ call.out \in {<<0>>, <<1>>}
          /\ call.arg = <<1118, 255, 93, 1>> => call.out = <<1>>
          /\ call.arg = <<4369, 255, 93, 1>> => call.out = <<0>>

\* is_xbox360 has accepted the wireless receiver of a Microsoft controller.
C22_Witness ==
    /\ call.op = "is_xbox360"
    /\ call.arg = <<1118, 255, 93, 129>>
    /\ call.out = <<1>>

\* Report descriptor items as the HID specification lays them out: a short
\* item is a key byte whose low two bits give 0, 1, 2 or 4 data bytes; a long
\* item is the key 0xFE, a data length byte, a tag byte and the data. Offsets
\* count from 0, so the key of the item at offset p is d[p + 1].
ShortDataLen(key) == IF key % 4 = 3 THEN 4 ELSE key % 4
ItemSize(d, p) ==
    IF d[p + 1] = 254 THEN 3 + d[p + 2] ELSE 1 + ShortDataLen(d[p + 1])
IsUsagePageKey(key) == key \in 4..7
IsUsageKey(key) == key \in 8..11
\* The item at offset p is well formed and lies fully inside the buffer.
WellFormedAt(d, p) ==
    /\ p < Len(d)
    /\ d[p + 1] >= 240 => (d[p + 1] = 254 /\ p + 1 < Len(d))
    /\ p + ItemSize(d, p) <= Len(d)
\* The little-endian value of the n bytes from offset p on.
RECURSIVE LittleEndian(_, _, _)
LittleEndian(d, p, n) ==
    IF n = 0 THEN 0 ELSE d[p + 1] + 256 * LittleEndian(d, p + 1, n - 1)
\* The value of the short item at offset p.
ItemValue(d, p) == LittleEndian(d, p + 1, ShortDataLen(d[p + 1]))

\* The offset of the Usage Page item when, from offset p on, d is well-formed
\* items that are neither Usage Page nor Usage, then a well-formed short
\* Usage Page item, then a well-formed short Usage item; -1 otherwise.
RECURSIVE PageThenUsage(_, _)
PageThenUsage(d, p) ==
    IF ~WellFormedAt(d, p) THEN -1
    ELSE IF IsUsagePageKey(d[p + 1])
      THEN (IF /\ WellFormedAt(d, p + ItemSize(d, p))
               /\ IsUsageKey(d[p + ItemSize(d, p) + 1])
              THEN p ELSE -1)
    ELSE IF IsUsageKey(d[p + 1]) THEN -1
    ELSE PageThenUsage(d, p + ItemSize(d, p))

\* C23 as stated: on a descriptor of well-formed items that are neither Usage
\* Page nor Usage, followed by a well-formed short Usage Page item and a
\* well-formed short Usage item inside the buffer, get_usage returns success
\* with exactly the value of the Usage Page item and the value of the Usage item.
C23_ReturnsPageAndUsage ==
    (call.op = "get_usage" /\ PageThenUsage(call.arg, 0) >= 0) =>
       LET p == PageThenUsage(call.arg, 0)
           q == p + ItemSize(call.arg, p)
       IN  /\ call.out[1] = 0
           /\ call.out[2] = ItemValue(call.arg, p)
           /\ call.out[3] = ItemValue(call.arg, q)

\* C23 amended: the same for a Usage item of at most 2 data bytes, the Usage
\* Page returned being the low 16 bits of the value of the Usage Page item.
C23_ReturnsPageAndShortUsage ==
    (/\ call.op = "get_usage" /\ PageThenUsage(call.arg, 0) >= 0
     /\ ShortDataLen(call.arg[PageThenUsage(call.arg, 0)
                              + ItemSize(call.arg, PageThenUsage(call.arg, 0)) + 1]) <= 2) =>
       LET p == PageThenUsage(call.arg, 0)
           q == p + ItemSize(call.arg, p)
       IN  /\ call.out[1] = 0
           /\ call.out[2] = ItemValue(call.arg, p) % 65536
           /\ call.out[3] = ItemValue(call.arg, q)

\* get_usage has passed a Collection item and returned the 2-byte Usage Page
\* 0xff00 and the 2-byte Usage 0x0201 that follow it.
C23_Witness ==
    /\ call.op = "get_usage"
    /\ call.arg = <<161, 1, 6, 0, 255, 10, 1, 2>>
    /\ call.out = <<0, 65280, 513, 5>>

\* The offsets of the well-formed items of d from offset p on, up to the first
\* place where no well-formed item starts.
RECURSIVE ItemOffsets(_, _)
ItemOffsets(d, p) ==
    IF ~WellFormedAt(d, p) THEN {} ELSE {p} \cup ItemOffsets(d, p + ItemSize(d, p))

\* C24: a 4-byte Usage item at offset i, fully inside the buffer, that the
\* parser comes to yields usage = little-endian bytes i+1..i+2 and
\* usage_page = little-endian bytes i+3..i+4, and the parser stops there with
\* success.
C24_PackedUsage ==
    call.op = "get_usage" =>
       \A i \in ItemOffsets(call.arg, 0) :
          (/\ call.arg[i + 1] = 11
           /\ i + 4 < Len(call.arg)
           /\ call.out[4] >= i)
          => /\ call.out[1] = 0
             /\ call.out[3] = call.arg[i + 2] + 256 * call.arg[i + 3]
             /\ call.out[2] = call.arg[i + 4] + 256 * call.arg[i + 5]
             /\ call.out[4] = i

\* get_usage has come to a 4-byte Usage item after a Usage Page item and
\* returned the two halves of its data, not the Usage Page seen before.
C24_Witness ==
    /\ call.op = "get_usage"
    /\ call.arg = <<5, 1, 11, 6, 0, 12, 0>>
    /\ call.out = <<0, 12, 6, 2>>

\* The path format bus-port[.port...]:config.interface, the numbers in decimal.
DigitChars == <<"0", "1", "2", "3", "4", "5", "6", "7", "8", "9">>
RECURSIVE Decimal(_)
Decimal(n) ==
    IF n < 10 THEN <<DigitChars[n + 1]>>
    ELSE Decimal(n \div 10) \o <<DigitChars[(n % 10) + 1]>>
RECURSIVE Dotted(_)
Dotted(ports) ==
    IF Len(ports) = 1 THEN Decimal(ports[1])
    ELSE Decimal(Head(ports)) \o <<".">> \o Dotted(Tail(ports))
PathFormat(bus, ports, config, interface) ==
    Decimal(bus) \o <<"-">> \o Dotted(ports) \o <<":">> \o Decimal(config)
        \o <<".">> \o Decimal(interface)

\* C25: the path is a function of the bus number, the port chain, the
\* configuration number and the interface number of a topology (a bus and a
\* chain of one or more ports): resolving it gives the string
\* bus-port[.port...]:config.interface, the same string each time, and two
\* topologies that differ only in the interface number give different strings.
C25_PathOfTopology ==
    (call.op = "get_path" /\ Len(call.arg[2]) >= 1) =>
       /\ call.out[1] = PathFormat(call.arg[1], call.arg[2], call.arg[3], call.arg[4])
       /\ call.out[2] = PathFormat(call.arg[1], call.arg[2], call.arg[3], call.arg[5])
       /\ call.arg[4] = call.arg[5] => call.out[1] = call.out[2]
       /\ call.arg[4] # call.arg[5] => call.out[1] # call.out[2]

\* Interfaces 1 and 10 of a device behind two hubs have been resolved to
\* 1-2.1:1.1 and 1-2.1:1.10.
C25_Witness ==
    /\ call.op = "get_path"
    /\ call.arg = <<1, <<2, 1>>, 1, 1, 10>>
    /\ call.out = << <<"1", "-", "2", ".", "1", ":", "1", ".", "1">>,
                     <<"1", "-", "2", ".", "1", ":", "1", ".", "1", "0">> >>

\* ------------------------------------------------ Xbox 360 initialisation
\* A controller whose only interface carries the Xbox 360 class triple, wired
\* or wireless.
Xbox360Class(loc, vid, pid, proto) ==
    UsbDev(loc, vid, pid, TRUE, TRUE, TRUE,
           << <<IntfDesc(0, LIBUSB_CLASS_VENDOR_SPEC, xb360_iface_subclass,
                         proto, <<EpIn, EpOut>>)>> >>)

\* The VID/PID pairs init_xbox360 names, other products of the same vendors,
\* and a Microsoft controller.
Xbox360Ids ==
    {<<VENDOR_GAMESIR, PRODUCT_GAMESIR_G3W>>, <<VENDOR_GAMESIR, 1>>,
     <<VENDOR_POWERA, PRODUCT_POWERA_BATTLE_DRAGON>>, <<VENDOR_POWERA, 1>>,
     <<VENDOR_HORI, PRODUCT_HORI_SHARED>>, <<VENDOR_HORI, 1>>,
     <<vendor_microsoft, 654>>}

Xbox360DevicesAt(loc) ==
    {Xbox360Class(loc, id[1], id[2], proto) :
        id \in Xbox360Ids, proto \in {xb360_iface_protocol, xb360w_iface_protocol}}

\* hid_open_path on interface 0 of one Xbox 360 class controller, with or
\* without a kernel driver bound, every libusb call succeeding or failing.
InitXbox360 ==
    /\ PipelineInitAt("t_none", "o_none", "none", "none")
    /\ \E usb_dev \in Xbox360DevicesAt(1) :
         /\ devs = <<usb_dev>>
         /\ path = get_path(usb_dev, 0)
    /\ kactive \in BOOLEAN
    /\ detached = {}
    /\ hpc = "p_dev"
    /\ open_d = 1 /\ open_j = 1 /\ open_k = 1
    /\ good_open = 0
    /\ oret = "none"
    /\ tried = <<>>
    /\ is_driver_detached = 0
    /\ input_endpoint = 0 /\ output_endpoint = 0
    /\ skip_output_report_id = 0 /\ no_skip_output_report_id = 0
    /\ no_output_reports_on_intr_ep = 0
    /\ blocking = 1
    /\ io = NoIo

SpecXbox360 == InitXbox360 /\ [][NextOpen]_vars

\* The three exceptions named: 0x05ac/0x055b, 0x20d6/0x4010 and every product
\* of vendor 0x0f0d.
NamedException(usb_dev) ==
    \/ usb_dev.vid = 1452 /\ usb_dev.pid = 1371
    \/ usb_dev.vid = 8406 /\ usb_dev.pid = 16400
    \/ usb_dev.vid = 3853

\* hid_open_path has returned and no libusb call it made has failed.
OpenedUnhindered ==
    /\ hpc = "p_ret"
    /\ \A n \in 1..Len(tried) : tried[n].end = "opened"

\* C31: when hid_open_path is called for the Xbox 360 class interface (class
\* vendor-specific, subclass 93, protocol 1 or 129) of one of the three named
\* exceptions and no libusb call fails, the open has issued the unlock control
\* transfer (0xC1, 0x01, 0x0100) and set no_skip_output_report_id; for every
\* other Xbox 360 class controller no control transfer is issued.
C31_ExceptionsUnlocked ==
    /\ (OpenedUnhindered /\ NamedException(devs[1]))
          => /\ unlocks = << <<193, 1, 256>> >>
             /\ no_skip_output_report_id = 1
    /\ ~NamedException(devs[1]) => unlocks = <<>>

\* What holds of C31: the two exceptions whose vendor is in the table of
\* is_xbox360 get the transfer and the flag, and no other controller gets the
\* transfer.
C31_ListedExceptionsUnlocked ==
    /\ (OpenedUnhindered /\ NamedException(devs[1]) /\ devs[1].vid \in Xbox360Vendors)
          => /\ oret = "dev"
             /\ unlocks = << <<193, 1, 256>> >>
             /\ no_skip_output_report_id = 1
    /\ ~NamedException(devs[1]) => unlocks = <<>>
    /\ devs[1].vid \notin Xbox360Vendors => unlocks = <<>> /\ oret # "dev"
    /\ Len(unlocks) <= 1

\* A PowerA Battle Dragon has been opened and unlocked.
C31_ListedWitness ==
    /\ OpenedUnhindered /\ oret = "dev"
    /\ devs[1].vid = 8406 /\ devs[1].pid = 16400
    /\ unlocks = << <<193, 1, 256>> >>

\* ------------------------------------------------- get_usage: which items
\* The offsets of the well-formed Usage Page items, and of the well-formed
\* Usage items, that get_usage has scanned when it has stopped at offset at.
ScannedPages(d, at) == {p \in ItemOffsets(d, 0) : p <= at /\ IsUsagePageKey(d[p + 1])}
ScannedUsages(d, at) == {p \in ItemOffsets(d, 0) : p <= at /\ IsUsageKey(d[p + 1])}
First(offsets) == CHOOSE p \in offsets : \A q \in offsets : p <= q
Last(offsets) == CHOOSE p \in offsets : \A q \in offsets : q <= p

\* get_usage has returned success on a descriptor in which it has scanned a
\* well-formed Usage Page item and a well-formed Usage item.
FoundBothKinds ==
    /\ call.op = "get_usage"
    /\ call.out[1] = 0
    /\ ScannedPages(call.arg, call.out[4]) # {}
    /\ ScannedUsages(call.arg, call.out[4]) # {}

\* C32: on success get_usage returns the value (as 16 bits) of the first
\* Usage Page item and the value of the first Usage item that occur in the
\* descriptor, also when several Usage Page items, several Usage items or a
\* 4-byte Usage after a Usage Page occur before both kinds have been seen.
C32_ReturnsFirstPageAndUsage ==
    FoundBothKinds =>
       /\ call.out[2] = ItemValue(call.arg, First(ScannedPages(call.arg, call.out[4]))) % 65536
       /\ call.out[3] = ItemValue(call.arg, First(ScannedUsages(call.arg, call.out[4]))) % 65536

\* What get_usage returns instead: the value of the latest Usage Page item
\* and of the latest Usage item scanned, a 4-byte Usage giving both values.
C32_ReturnsLatestPageAndUsage ==
    FoundBothKinds =>
       LET d == call.arg
           lp == Last(ScannedPages(d, call.out[4]))
           lu == Last(ScannedUsages(d, call.out[4]))
       IN  IF ShortDataLen(d[lu + 1]) = 4
             THEN /\ call.out[2] = LittleEndian(d, lu + 3, 2)
                  /\ call.out[3] = LittleEndian(d, lu + 1, 2)
             ELSE /\ call.out[2] = ItemValue(d, lp) % 65536
                  /\ call.out[3] = ItemValue(d, lu)

\* Two Usage Page items came before the first Usage item: get_usage has
\* returned the second one's value.
C32_LatestWitness ==
    /\ call.op = "get_usage"
    /\ call.arg = <<5, 1, 6, 0, 255, 9, 2>>
    /\ call.out = <<0, 65280, 2, 5>>

\* C33: when get_usage reaches the end of the buffer without having found
\* both a Usage Page and a Usage, it reports failure and the usage page and
\* the usage stored in the device record are both zero.
C33_FailureStoresZeros ==
    (call.op = "fill_device_info_usage" /\ call.out[1] = -1) =>
        call.out[2] = 0 /\ call.out[3] = 0

\* What holds on failure: the parser has stopped at or past the end of the
\* buffer, and of the two values stored at least the one of the kind not
\* found is zero.
C33_FailureLeavesOneZero ==
    /\ (call.op = "fill_device_info_usage" /\ call.out[1] = -1) =>
          call.out[2] = 0 \/ call.out[3] = 0
    /\ (call.op = "get_usage" /\ call.out[1] = -1) =>
          /\ call.out[4] >= Len(call.arg)
          /\ call.out[2] = 0 \/ call.out[3] = 0

\* A descriptor holding a Usage Page item only: the parser has failed and
\* the record holds the page it found.
C33_PartialWitness ==
    /\ call.op = "fill_device_info_usage"
    /\ call.arg = <<5, 1>>
    /\ call.out = <<-1, 1, 0>>

\* C34: on every buffer, truncated items and long items whose length byte
\* is missing or points past the end included, get_usage reads only indices
\* below the buffer length, and the scan offset strictly increases from one
\* iteration to the next, so that the loop ends within as many iterations
\* as the buffer has bytes.
C34_ReadsInsideBuffer ==
    call.op = "get_usage" =>
       /\ \A c \in call.reads : 0 <= c /\ c < Len(call.arg)
       /\ \A n \in 1..(Len(call.scan) - 1) : call.scan[n] < call.scan[n + 1]
       /\ Len(call.scan) <= Len(call.arg)

\* get_usage has read a Usage Page item and come to a long item whose length
\* byte points past the end: it has read the key and the length byte only,
\* and stopped.
C34_Witness ==
    /\ call.op = "get_usage"
    /\ call.arg = <<5, 1, 254, 2, 16>>
    /\ call.out[1] = -1
    /\ call.reads = {0, 1, 2, 3}
    /\ call.scan = <<0, 2>>

\* ------------------------------------------- report requests and hid_write
\* A report request has handed a buffer to the transport.
Requested == io.op \in {"send_feature_report", "get_feature_report", "get_input_report"}
\* The transfer was made on the buffer without its first byte.
Stripped == io.sent = Tail(io.data)
\* hid_write strips the first byte of the same buffer on this session.
WriteWouldStrip ==
    skip_output_report_id = 1 \/ (io.data[1] = 0 /\ no_skip_output_report_id = 0)
\* A successful request returns the number of bytes transferred, one more when
\* the first byte was stripped.
CountsStrippedByte ==
    io.ret >= 0 => io.ret = io.actual + (IF Stripped THEN 1 ELSE 0)

\* C35 as stated: hid_send_feature_report, hid_get_feature_report and
\* hid_get_input_report strip or offset the first byte of the buffer exactly
\* when hid_write strips it for the same session and first byte, also on a
\* session with skip_output_report_id or no_skip_output_report_id set, and
\* add 1 to the count returned whenever they stripped.
C35_RequestsStripAsWrite ==
    Requested =>
        /\ Stripped <=> WriteWouldStrip
        /\ ~Stripped => io.sent = io.data
        /\ CountsStrippedByte

\* C35 amended: the three report requests strip or offset the first byte
\* exactly when it is 0, which is when hid_write strips it on a session with
\* neither skip_output_report_id nor no_skip_output_report_id set, and add 1
\* to the count returned whenever they stripped.
C35_RequestsStripOnZero ==
    Requested =>
        /\ Stripped <=> io.data[1] = 0
        /\ (skip_output_report_id = 0 /\ no_skip_output_report_id = 0)
              => (Stripped <=> WriteWouldStrip)
        /\ ~Stripped => io.sent = io.data
        /\ CountsStrippedByte

\* On a Sony controller, where hid_write strips every first byte, a feature
\* report with report number 7 was sent whole; it returned its length.
C35_Witness ==
    /\ io.op = "send_feature_report"
    /\ skip_output_report_id = 1
    /\ io.data = <<7, 0>> /\ io.sent = <<7, 0>> /\ io.ret = 2

\* ------------------------------------------------- several blocked readers
\* A healthy session that is never closed, on which the application's threads
\* call hid_read_timeout with milliseconds = -1 now and then, and the device
\* sends up to MaxReports reports and then stays silent (its transfers time
\* out and are resubmitted).
NextWaiters ==
    \/ BacklogThreadProgress
    \/ read_callback_lock
    \/ Dispatch(BacklogStatuses, {MaxRptLen}, MaxReports)
    \/ \E r \in Readers : hid_read_timeout_entry(r, -1, MaxBufLen)
    \/ \E r \in Readers : ReaderProgress(r)
    \/ \E r \in Readers : hid_read_timeout_woken(r)
    \/ \E r \in Readers : cond_spurious_wakeup(r)

\* Every thread that can run does run, a thread that can take the mutex again
\* and again does take it, and the transport completes every transfer. A
\* spurious wake-up may happen; none is promised.
FairnessWaiters ==
    /\ WF_vars(BacklogThreadProgress)
    /\ SF_vars(read_callback_lock)
    /\ SF_vars(Dispatch(BacklogStatuses, {MaxRptLen}, MaxReports))
    /\ \A r \in Readers : WF_vars(ReaderProgress(r))
    /\ \A r \in Readers : SF_vars(hid_read_timeout_woken(r))

SpecWaiters == Init /\ [][NextWaiters]_vars /\ FairnessWaiters

\* C36: with two or more readers blocked in hid_read_timeout with
\* milliseconds = -1, no reader stays blocked for ever while the queue is
\* non-empty, also when no further report arrives and the session is not
\* shut down.
C36_NoReaderStaysBlocked ==
    \A r \in Readers :
        []<>~(rpc[r] = "r_wait" /\ ms[r] = -1 /\ input_reports # <<>>)

\* Two readers were blocked and two reports came before the reader woken for
\* the first had taken the mutex: that reader has returned the first report,
\* the second report is queued, and the other reader is still blocked, no
\* wake-up being on its way.
C36_Stranded ==
    /\ rpc["r1"] = "r_idle" /\ lastGot = 1
    /\ rpc["r2"] = "r_wait" /\ ms["r2"] = -1
    /\ Len(input_reports) = 1 /\ Head(input_reports).id = 2
    /\ nsent = MaxReports /\ tpc = "t_events"

\* ---------------------------------------------- the first submission fails
\* hidapi_initialize_device has created the read thread; hid_open_path goes on
\* to return the session, which the caller then reads in every mode and
\* closes; the first submission and every later one succeeds or fails.
OpenReturnProgress ==
    \/ initialize_return
    \/ hid_open_path_altsetting
    \/ hid_open_path_interface
    \/ hid_open_path_device
    \/ hid_open_path_return

NextSubmit ==
    \/ ThreadStep({MaxRptLen}, MaxShutdownReports)
    \/ OpenReturnProgress
    \/ Returned /\ \E m \in Modes : hid_read_timeout_entry(ReadReader, m, MaxBufLen)
    \/ ReaderProgress(ReadReader)
    \/ hid_read_timeout_woken(ReadReader)
    \/ cond_timedwait_timeout(ReadReader)
    \/ cond_spurious_wakeup(ReadReader)
    \/ read_after_free(ReadReader)
    \/ Returned /\ hid_close_shutdown
    \/ CloseProgress
    \/ hid_close_lock

FairnessSubmit ==
    /\ WF_vars(ThreadProgress)
    /\ SF_vars(ThreadLock)
    /\ SF_vars(Dispatch(Statuses, {MaxRptLen}, MaxShutdownReports))
    /\ WF_vars(OpenReturnProgress)
    /\ WF_vars(ReaderProgress(ReadReader))
    /\ SF_vars(hid_read_timeout_woken(ReadReader))
    /\ WF_vars(cond_timedwait_timeout(ReadReader))
    /\ WF_vars(CloseProgress)
    /\ SF_vars(hid_close_lock)

SpecSubmit == Init /\ [][NextSubmit]_vars /\ FairnessSubmit

\* The first libusb_submit_transfer of read_thread has failed.
FirstSubmitFailed == first_submit = "failed"

\* C37: when the first submission of the read thread fails, hid_open_path
\* still returns the session, with the shutdown flag set; the thread returns
\* without a report ever having been enqueued; a read in any mode never
\* waits and returns -1; and hid_close, once called, runs to its end.
C37_FailedSubmitSession ==
    /\ [](FirstSubmitFailed =>
            /\ shutdown_thread = 1
            /\ nsent = 0 /\ input_reports = <<>> /\ rpt = NoRpt
            /\ hpc = "p_ret" => oret = "dev"
            /\ rpc[ReadReader] \notin {"r_loop", "r_wait", "r_woken"}
            /\ rpc[ReadReader] = "r_ret" => ret[ReadReader] = -1)
    /\ FirstSubmitFailed ~> (hpc = "p_ret" /\ oret = "dev")
    /\ FirstSubmitFailed ~> (tpc = "t_done")
    /\ (FirstSubmitFailed /\ cpc # "c_idle") ~> (cpc = "c_done")

\* After a failed first submission the session was returned, the thread has
\* returned, and a read with milliseconds = -1 is returning -1 while
\* hid_close waits for the mutex.
C37_Witness ==
    /\ FirstSubmitFailed
    /\ oret = "dev"
    /\ tpc = "t_done"
    /\ rpc[ReadReader] = "r_ret" /\ ms[ReadReader] = -1 /\ ret[ReadReader] = -1
    /\ cpc = "c_lock"

\* ------------------------------------------------- the lifetime of a report
\* A session that lives long enough for the backlog to overflow: the read
\* thread with every outcome of its calls, one application that polls now and
\* then, and a closer.
LifetimeReader == "r1"

NextLifetime ==
    \/ ThreadStep({MaxRptLen}, MaxBacklog)
    \/ hid_read_timeout_entry(LifetimeReader, 0, MaxBufLen)
    \/ hid_read_timeout_check(LifetimeReader)
    \/ hid_read_timeout_return(LifetimeReader)
    \/ read_after_free(LifetimeReader)
    \/ CloseStep

SpecLifetime == Init /\ [][NextLifetime]_vars

\* The ids of the reports the callbacks have allocated so far.
Allocated == 1..nsent

FreedIds == {freed[i] : i \in 1..Len(freed)}

LinkedIds == {input_reports[i].id : i \in 1..Len(input_reports)}

\* No read has run on the memory of a freed session (see C40).
NoReadAfterFree == \A r \in Readers : rpc[r] # "r_ub"

\* C38: as long as no read runs on a freed session, every report node a
\* completion callback allocated is freed at most once, and never while it is
\* linked in the queue or still held by the callback that allocated it; every
\* allocated node is linked, held by its callback or freed; and once close has
\* returned every allocated node has been freed, the queue is empty, the read
\* thread has returned and no callback is running or can be dispatched.
C38_ReportsFreedExactlyOnce ==
    NoReadAfterFree =>
        /\ \A i, j \in 1..Len(freed) : freed[i] = freed[j] => i = j
        /\ FreedIds \subseteq Allocated
        /\ FreedIds \cap LinkedIds = {}
        /\ rpt # NoRpt => rpt.id \notin FreedIds \cup LinkedIds
        /\ Allocated = FreedIds \cup LinkedIds
                          \cup (IF rpt # NoRpt THEN {rpt.id} ELSE {})
        /\ cpc = "c_done" =>
              /\ FreedIds = Allocated
              /\ input_reports = <<>> /\ rpt = NoRpt
              /\ tpc = "t_done" /\ cbret = "none" /\ xfer # "inflight"

\* C38 witness: close has returned on a session whose first report was read by
\* the application, whose second was evicted by the callback that queued the
\* thirty-third behind it, and whose last was freed by close's drain.
C38_Witness ==
    /\ cpc = "c_done" /\ NoReadAfterFree
    /\ nsent = MaxBacklog
    /\ lastGot = 1
    /\ Len(freed) = MaxBacklog

\* ------------------------------------------------ what a read consumes
\* A step of reader r alone: it moves r inside hid_read_timeout, and is neither
\* a step of the read thread (whose append wakes a waiter) nor of close.
ReadStepOf(r) ==
    /\ rpc'[r] # rpc[r]
    /\ rpc'[r] # "r_ub"
    /\ tpc' = tpc
    /\ cpc' = cpc

\* C39 (as claimed): a read takes a report off the queue only when it returns
\* a positive count, so a read that returns 0 or -1 leaves the queue as it
\* found it, whatever the report's length and the caller's buffer length.
C39_ZeroOrErrorConsumesNothing ==
    [][\A r \in Readers :
          (ReadStepOf(r) /\ input_reports' # input_reports)
              => (rpc'[r] = "r_ret" /\ ret'[r] > 0)]_vars

\* C39 (amended): a read changes the queue only in the step in which it finds
\* a report queued; that step unlinks exactly the head and returns the smaller
\* of the buffer length and the report's length, which is 0 exactly when the
\* report is zero-length or the buffer length is 0 and is never -1. Every
\* other way a read returns (0 on an empty queue or an expired deadline, -1)
\* leaves the queue unchanged.
C39_OnlyReturnDataConsumes ==
    [][\A r \in Readers :
          ReadStepOf(r) =>
              IF input_reports' # input_reports
                THEN /\ input_reports # <<>>
                     /\ input_reports' = Tail(input_reports)
                     /\ rpc'[r] = "r_ret"
                     /\ got'[r] = Head(input_reports).id
                     /\ ret'[r] = (IF blen'[r] < Head(input_reports).len
                                     THEN blen'[r]
                                     ELSE Head(input_reports).len)
                     /\ ret'[r] >= 0
                ELSE rpc'[r] = "r_ret" => (ret'[r] \in {0, -1} /\ got'[r] = 0)]_vars

\* C39 witness: a read with a one-byte buffer has taken a zero-length report
\* off the queue and is about to return 0.
C39_Witness ==
    \E r \in Readers :
        /\ rpc[r] = "r_ret" /\ ret[r] = 0 /\ got[r] # 0 /\ blen[r] = 1
        /\ got[r] \notin LinkedIds

\* ------------------------------------------------ close and reads in progress
\* A read call on the session is in progress: the reader is between the entry
\* and the return of hid_read_timeout.
ReadInProgress(r) == rpc[r] # "r_idle"

\* C40 (as claimed): once free_hid_device has destroyed the mutex and the
\* condition and freed the session, no read call on that session is in
\* progress: every reader that was inside hid_read_timeout has returned.
C40_NoFreeUnderRead ==
    ~dev_alive => \A r \in Readers : ~ReadInProgress(r)

\* The state the code reaches instead: close has returned and a reader that
\* was blocked in the wait has not yet come back from it.
C40_FreedUnderBlockedReader ==
    /\ cpc = "c_done" /\ ~dev_alive
    /\ \E r \in Readers : rpc[r] \in {"r_wait", "r_woken"} /\ ms[r] = -1
====
